---- MODULE Spec2Model ----
(***************************************************************************)
(* A model of the coordination runtime of converge: the TaskManager        *)
(* (task lifecycle, claims, leases, persistence), the PoolManager          *)
(* (admission and membership) and the agent runtime loop with its          *)
(* executor.                                                               *)
(***************************************************************************)
EXTENDS Integers, Sequences, FiniteSets, TLC

(***************************************************************************)
(* Bounds of the model and the small sets the inputs are drawn from.       *)
(***************************************************************************)
MaxTime == 2

TaskSeq == <<"t1", "t2">>
TaskIds == {TaskSeq[i] : i \in 1..Len(TaskSeq)}
Agents == {"a1", "a2"}
\* What report is given as the result, and fail_task as the reason
ReportResults == {"done"}
FailReasons == {"error"}
PoolIds == {"p1", "p2"}

\* Python's None, for string-valued and for number-valued fields.
None == "None"
NoNum == -1

TTLs == {NoNum, 1}

\* A claim_ttl_sec that float() does not take (a word, a list), and the
\* values of claim_ttl_sec of the tasks submitted to check the leases
BadNum == -2
LeaseTTLs == {NoNum, BadNum, 1}

VARIABLES
    tasks,              \* TaskManager.tasks: dict task id -> Task
    pending_task_ids,   \* TaskManager.pending_task_ids
    store,              \* the store's task:<id> entries: task id -> snapshot
    now,                \* time.monotonic()
    call,               \* the last TaskManager/PoolManager call and what it returned
    claiming,           \* per caller thread: the task it is inside claim() for
    winners,            \* per task: the callers whose claim returned true since its last release
    pools,              \* PoolManager.pools: dict pool id -> Pool
    pool_store,         \* the store's pool:<id> entries: pool id -> snapshot
    scores,             \* TrustModel.scores of the application's trust model
    running,            \* per agent: AgentRuntime.running
    rt_pc,              \* per agent: where its main loop is ("wait", "decide")
    rt_decisions,       \* per agent: the decisions its decide call returns
    claim_log,          \* per task: how many ClaimTask succeeded, and who lost one
    started,            \* per peer: LocalTransport._started
    queue,              \* per peer: the messages in LocalTransport.queue
    queues,             \* LocalTransportRegistry.queues, as the set of its keys
    topic_subscriptions,\* LocalTransportRegistry.topic_subscriptions
    tcp_server,         \* per agent: TcpTransport.server is listening
    tcp_inbox,          \* per agent: the messages in TcpTransport.inbox
    ws,                 \* per agent: WebSocketTransport._ws is an open connection
    listen_pc,          \* per agent: its listener task ("none", "receive", "done")
    rt_inbox,           \* per agent: the messages in the runtime's Inbox
    wake,               \* per agent: Scheduler._wake_event is set
    messages_received,  \* per agent: the counter messages_received
    decided,            \* per agent: the messages its decide was called with
    descriptors,        \* DiscoveryService.descriptors, as the set of its keys
    discovery_store,    \* the store's descriptors, as the set of their agent ids
    stop_pc,            \* per agent: where a running call of stop() is
    stop_log,           \* per agent: what its last call of stop() did, in order
    tick_no,            \* per agent: how many times its decide returned decisions
    sent,               \* per agent: what its runtime handed to transport.send
    effects,            \* per agent: the effects of its decisions, as they took place
    tool_threads,       \* per agent: the tool runs left on worker threads
    sched_pc,           \* per agent: where a call of Scheduler.wait_for_work is
    notified,           \* per agent: notify() was called since the last True of wait_for_work
    inbox_cfg,          \* per agent: maxsize and drop_when_full of its Inbox
    pushing,            \* per agent: the message its listener holds, not yet in the inbox
    hooks,              \* per agent: the calls of the last pass of its main loop, in order
    start_log,          \* per agent: what its last call of start() did, in order
    cancelled,          \* per agent: the tasks cancel() was called on and that still run
    safety_policy,      \* per agent: the safety_policy of its executor
    decisions_executed, \* per agent: the counter decisions_executed
    tcp_pool,           \* TcpTransport.pool of one transport: peer -> its pooled connection
    tcp_conns,          \* the outbound connections that transport opened, in order
    tcp_send,           \* per sender: where its call of TcpTransport.send is
    kv_data,            \* the entries of a store other than tasks and pools: key -> value
    pia_pc,             \* per caller thread: where its call of put_if_absent is
    pia_true,           \* per key: the callers whose put_if_absent returned true, in order
    expired,            \* per task: the agents whose claim release_expired_claims took back
    sessions            \* NegotiationProtocol.sessions: session id -> session

taskVars == <<tasks, pending_task_ids, store, now>>
concVars == <<claiming, winners>>
poolVars == <<pools, pool_store, scores>>
rtVars == <<running, rt_pc, rt_decisions, claim_log>>
localVars == <<started, queue, queues, topic_subscriptions>>
connVars == <<tcp_pool, tcp_conns, tcp_send>>
\* The state of the components a runtime does not reach into
kvVars == <<kv_data, pia_pc, pia_true>>
lateVars == <<expired>>
negVars == <<sessions>>
sideVars == <<connVars, kvVars, lateVars, negVars>>
remoteVars == <<tcp_server, tcp_inbox, ws, sideVars>>
netVars == <<localVars, remoteVars>>
execVars == <<tick_no, sent, effects, tool_threads>>
loopVars == <<sched_pc, notified, inbox_cfg, pushing, hooks, start_log, cancelled,
              safety_policy, decisions_executed>>
nodeVars == <<listen_pc, rt_inbox, wake, messages_received, decided,
              descriptors, discovery_store, stop_pc, stop_log, execVars, loopVars>>
vars == <<tasks, pending_task_ids, store, now, call, claiming, winners,
          pools, pool_store, scores, running, rt_pc, rt_decisions, claim_log,
          started, queue, queues, topic_subscriptions, tcp_server, tcp_inbox, ws,
          listen_pc, rt_inbox, wake, messages_received, decided,
          descriptors, discovery_store, stop_pc, stop_log,
          tick_no, sent, effects, tool_threads,
          sched_pc, notified, inbox_cfg, pushing, hooks, start_log, cancelled,
          safety_policy, decisions_executed,
          tcp_pool, tcp_conns, tcp_send, kv_data, pia_pc, pia_true, expired,
          sessions>>

(***************************************************************************)
(* Task and the dictionaries that hold it.                                 *)
(***************************************************************************)
TaskState == {"PENDING", "ASSIGNED", "RUNNING", "COMPLETED", "FAILED", "CANCELLED"}
Terminal == {"COMPLETED", "FAILED", "CANCELLED"}

NewTask(ttl, pool) ==
    [state |-> "PENDING", assigned_to |-> None, result |-> None,
     claimed_at |-> NoNum, ttl |-> ttl, pool_id |-> pool,
     required_capabilities |-> {}, cpu |-> 0, memory_mb |-> 0]

\* d[k] = v on a dict
Put(d, k, v) == [x \in (DOMAIN d) \cup {k} |-> IF x = k THEN v ELSE d[x]]

EmptyDict == [x \in {} |-> None]

\* How often id t is in the list ids
Count(t, ids) == Cardinality({i \in 1..Len(ids) : ids[i] = t})

Ret(op, agent, task, ret, out) ==
    [op |-> op, agent |-> agent, task |-> task, ret |-> ret, out |-> out]

(***************************************************************************)
(* TaskManager                                                             *)
(***************************************************************************)
\* submit(task) of a freshly constructed Task (a new uuid, state PENDING)
Submit(t, ttl, pool) ==
    /\ t \notin DOMAIN tasks
    /\ t \notin DOMAIN store
    /\ LET task == NewTask(ttl, pool) IN
        /\ tasks' = Put(tasks, t, task)
        /\ store' = Put(store, t, task)
        /\ pending_task_ids' =
               IF task.state = "PENDING" THEN pending_task_ids \cup {t}
               ELSE pending_task_ids
    /\ call' = Ret("submit", None, t, t, <<>>)
    /\ UNCHANGED now

\* The lookup every operation starts with: the cached task, else the stored
\* one, which is then cached.  Gives the dict after the lookup.
Lookup(t) ==
    IF t \in DOMAIN tasks THEN tasks
    ELSE IF t \in DOMAIN store THEN Put(tasks, t, store[t])
    ELSE tasks

\* The manager's dictionaries as one value, and their update
TM == [tasks |-> tasks, pending |-> pending_task_ids, store |-> store]

Apply(m) ==
    /\ tasks' = m.tasks
    /\ pending_task_ids' = m.pending
    /\ store' = m.store

\* The lookup every operation starts with, on the manager state m
LookupIn(m, t) ==
    IF t \in DOMAIN m.tasks THEN m.tasks
    ELSE IF t \in DOMAIN m.store THEN Put(m.tasks, t, m.store[t])
    ELSE m.tasks

\* claim that takes an ASSIGNED task over from its assignee
ClaimSteals(m, clock, a, t) ==
    LET cached == LookupIn(m, t) IN
    IF t \notin DOMAIN cached
    THEN [m |-> m, ret |-> "false"]
    ELSE IF cached[t].state \notin {"PENDING", "ASSIGNED"}
    THEN [m |-> [m EXCEPT !.tasks = cached], ret |-> "false"]
    ELSE LET task == [cached[t] EXCEPT !.state = "ASSIGNED",
                                       !.assigned_to = a,
                                       !.claimed_at = clock] IN
         [m |-> [tasks |-> Put(cached, t, task),
                 pending |-> m.pending \ {t},
                 store |-> Put(m.store, t, task)],
          ret |-> "true"]

\* claim that does not record the time of the claim
ClaimWithoutTimestamp(m, clock, a, t) ==
    LET cached == LookupIn(m, t) IN
    IF t \notin DOMAIN cached
    THEN [m |-> m, ret |-> "false"]
    ELSE IF cached[t].state # "PENDING"
    THEN [m |-> [m EXCEPT !.tasks = cached], ret |-> "false"]
    ELSE LET task == [cached[t] EXCEPT !.state = "ASSIGNED",
                                       !.assigned_to = a] IN
         [m |-> [tasks |-> Put(cached, t, task),
                 pending |-> m.pending \ {t},
                 store |-> Put(m.store, t, task)],
          ret |-> "true"]

\* claim(agent_id, task_id) on the manager state m at time clock: the
\* manager state after it and the value it returns
DoClaim(m, clock, a, t) ==
    LET cached == LookupIn(m, t) IN
    IF t \notin DOMAIN cached
    THEN [m |-> m, ret |-> "false"]
    ELSE IF cached[t].state # "PENDING"
    THEN [m |-> [m EXCEPT !.tasks = cached], ret |-> "false"]
    ELSE LET task == [cached[t] EXCEPT !.state = "ASSIGNED",
                                       !.assigned_to = a,
                                       !.claimed_at = clock] IN
         [m |-> [tasks |-> Put(cached, t, task),
                 pending |-> m.pending \ {t},
                 store |-> Put(m.store, t, task)],
          ret |-> "true"]

Claim(a, t) ==
    LET r == DoClaim(TM, now, a, t) IN
    /\ Apply(r.m)
    /\ call' = Ret("claim", a, t, r.ret, <<>>)
    /\ UNCHANGED now

\* cancel_task that leaves the claim on the cancelled task
CancelTaskKeepsClaim(t) ==
    LET cached == Lookup(t) IN
    IF t \notin DOMAIN cached \/ cached[t].state \in {"COMPLETED", "FAILED", "CANCELLED"}
    THEN /\ call' = Ret("cancel_task", None, t, "false", <<>>)
         /\ UNCHANGED taskVars
    ELSE LET task == [cached[t] EXCEPT !.state = "CANCELLED"] IN
         /\ pending_task_ids' = pending_task_ids \ {t}
         /\ tasks' = Put(cached, t, task)
         /\ store' = Put(store, t, task)
         /\ call' = Ret("cancel_task", None, t, "true", <<>>)
         /\ UNCHANGED now

\* cancel_task(task_id)
CancelTask(t) ==
    LET cached == Lookup(t) IN
    IF t \notin DOMAIN cached
    THEN /\ call' = Ret("cancel_task", None, t, "false", <<>>)
         /\ UNCHANGED taskVars
    ELSE IF cached[t].state \in {"COMPLETED", "FAILED", "CANCELLED"}
    THEN /\ tasks' = cached
         /\ call' = Ret("cancel_task", None, t, "false", <<>>)
         /\ UNCHANGED <<pending_task_ids, store, now>>
    ELSE LET task == [cached[t] EXCEPT !.state = "CANCELLED",
                                       !.assigned_to = None,
                                       !.claimed_at = NoNum] IN
         /\ pending_task_ids' = pending_task_ids \ {t}
         /\ tasks' = Put(cached, t, task)
         /\ store' = Put(store, t, task)
         /\ call' = Ret("cancel_task", None, t, "true", <<>>)
         /\ UNCHANGED now

\* fail_task(task_id, reason, agent_id=a); a = None when agent_id is not given
FailTask(t, reason, a) ==
    LET cached == Lookup(t) IN
    IF t \notin DOMAIN cached
    THEN /\ call' = Ret("fail_task", a, t, "none", <<>>)
         /\ UNCHANGED taskVars
    ELSE IF a # None /\ cached[t].assigned_to # a
    THEN /\ tasks' = cached
         /\ call' = Ret("fail_task", a, t, "raise", <<>>)
         /\ UNCHANGED <<pending_task_ids, store, now>>
    ELSE LET task == [cached[t] EXCEPT !.state = "FAILED",
                                       !.result = reason,
                                       !.claimed_at = NoNum] IN
         /\ tasks' = Put(cached, t, task)
         /\ store' = Put(store, t, task)
         /\ call' = Ret("fail_task", a, t, "none", <<>>)
         /\ UNCHANGED <<pending_task_ids, now>>

\* report without the check of the assignee
ReportByAnyone(m, a, t, result) ==
    LET cached == LookupIn(m, t) IN
    IF t \notin DOMAIN cached
    THEN [m |-> m, ret |-> "none"]
    ELSE LET task == [cached[t] EXCEPT !.result = result, !.state = "COMPLETED"] IN
         [m |-> [m EXCEPT !.tasks = Put(cached, t, task),
                          !.store = Put(m.store, t, task)],
          ret |-> "none"]

\* report that does not write the snapshot
ReportNotPersisted(m, a, t, result) ==
    LET cached == LookupIn(m, t) IN
    IF t \notin DOMAIN cached
    THEN [m |-> m, ret |-> "none"]
    ELSE IF cached[t].assigned_to # a
    THEN [m |-> [m EXCEPT !.tasks = cached], ret |-> "raise"]
    ELSE LET task == [cached[t] EXCEPT !.result = result, !.state = "COMPLETED"] IN
         [m |-> [m EXCEPT !.tasks = Put(cached, t, task)], ret |-> "none"]

\* report(agent_id, task_id, result) on the manager state m: the manager
\* state after it and "none" (returned) or "raise" (ValueError)
DoReport(m, a, t, result) ==
    LET cached == LookupIn(m, t) IN
    IF t \notin DOMAIN cached
    THEN [m |-> m, ret |-> "none"]
    ELSE IF cached[t].assigned_to # a
    THEN [m |-> [m EXCEPT !.tasks = cached], ret |-> "raise"]
    ELSE LET task == [cached[t] EXCEPT !.result = result, !.state = "COMPLETED"] IN
         [m |-> [m EXCEPT !.tasks = Put(cached, t, task),
                          !.store = Put(m.store, t, task)],
          ret |-> "none"]

Report(a, t, result) ==
    LET r == DoReport(TM, a, t, result) IN
    /\ Apply(r.m)
    /\ call' = Ret("report", a, t, r.ret, <<>>)
    /\ UNCHANGED now

GetTask(t) ==
    /\ tasks' = Lookup(t)
    /\ pending_task_ids' =
           IF t \notin DOMAIN tasks /\ t \in DOMAIN store /\ store[t].state = "PENDING"
           THEN pending_task_ids \cup {t}
           ELSE pending_task_ids
    /\ call' = Ret("get_task", None, t,
                   IF t \in DOMAIN tasks \/ t \in DOMAIN store THEN t ELSE None, <<>>)
    /\ UNCHANGED <<store, now>>

\* list_pending_tasks(), as the set of the ids of the tasks it returns
ListPendingTasks == {t \in pending_task_ids : t \in DOMAIN tasks}

\* list_pending_tasks_for_agent(agent_id, pool_ids, capabilities); NoFilter
\* is None for either filter
NoFilter == {None}

\* a listing that does not look at required_capabilities
ListPendingIgnoringCapabilities(pool_ids, capabilities) ==
    {t \in {u \in pending_task_ids : u \in DOMAIN tasks} :
        ~(tasks[t].pool_id # None /\ pool_ids # NoFilter
              /\ tasks[t].pool_id \notin pool_ids)}

ListPendingTasksForAgent(pool_ids, capabilities) ==
    {t \in ListPendingTasks :
        /\ ~(tasks[t].pool_id # None /\ pool_ids # NoFilter
              /\ tasks[t].pool_id \notin pool_ids)
        /\ ~(tasks[t].required_capabilities # {} /\ capabilities # NoFilter
              /\ ~(tasks[t].required_capabilities \subseteq capabilities))}

\* submit(task) of a new Task(pool_id=pool, required_capabilities=caps)
SubmitScoped(t, pool, caps) ==
    /\ t \notin DOMAIN tasks
    /\ t \notin DOMAIN store
    /\ LET task == [NewTask(NoNum, pool) EXCEPT !.required_capabilities = caps] IN
        /\ tasks' = Put(tasks, t, task)
        /\ store' = Put(store, t, task)
        /\ pending_task_ids' =
               IF task.state = "PENDING" THEN pending_task_ids \cup {t}
               ELSE pending_task_ids
    /\ call' = Ret("submit", None, t, t, <<>>)
    /\ UNCHANGED now

\* submit(task) of a new Task(constraints={"cpu": cpu, "memory_mb": memory_mb})
SubmitConstrained(t, cpu, memory_mb) ==
    /\ t \notin DOMAIN tasks
    /\ t \notin DOMAIN store
    /\ LET task == [NewTask(NoNum, None) EXCEPT !.cpu = cpu, !.memory_mb = memory_mb] IN
        /\ tasks' = Put(tasks, t, task)
        /\ store' = Put(store, t, task)
        /\ pending_task_ids' =
               IF task.state = "PENDING" THEN pending_task_ids \cup {t}
               ELSE pending_task_ids
    /\ call' = Ret("submit", None, t, t, <<>>)
    /\ UNCHANGED now

\* A call of list_pending_tasks_for_agent: out holds its two filters and
\* the set of the ids of the tasks it returns
ListForAgent(a, pool_ids, capabilities) ==
    /\ call' = Ret("list_pending_tasks_for_agent", a, None, "list",
                   <<pool_ids, capabilities,
                     ListPendingTasksForAgent(pool_ids, capabilities)>>)
    /\ UNCHANGED taskVars

\* the lease test with > for >=
ExpiredStrictly(task, now_ts) ==
    /\ task.ttl # NoNum
    /\ now_ts - task.claimed_at > task.ttl

\* float(ttl); NoNum when it raises TypeError or ValueError
Float(ttl) == IF ttl = BadNum THEN NoNum ELSE ttl

\* a lease test that takes any claim_ttl_sec as a number of seconds
ExpiredAnyTtl(task, now_ts) ==
    now_ts - task.claimed_at >= task.ttl

\* The test both loops of release_expired_claims apply to a task
Expired(task, now_ts) ==
    /\ task.ttl # NoNum
    /\ Float(task.ttl) # NoNum
    /\ now_ts - task.claimed_at >= Float(task.ttl)

\* A release that leaves the assignee on the task
ReleasedKeepsAssignee(task) ==
    [task EXCEPT !.state = "PENDING", !.claimed_at = NoNum]

\* The state both loops of release_expired_claims leave a released task in
Released(task) ==
    [task EXCEPT !.state = "PENDING", !.assigned_to = None, !.claimed_at = NoNum]

\* The first loop: the stored tasks that are not cached.  m is the manager's
\* state so far: [tasks, store, pending, released].
RECURSIVE ScanStore(_, _, _, _)
ScanStore(keys, seen, m, now_ts) ==
    IF keys = <<>> THEN m
    ELSE LET t == Head(keys)
             rest == Tail(keys) IN
         IF t \notin DOMAIN m.store \/ t \in seen
         THEN ScanStore(rest, seen, m, now_ts)
         ELSE LET task == m.store[t] IN
              IF task.state # "ASSIGNED" \/ task.claimed_at = NoNum
              THEN ScanStore(rest, seen \cup {t}, m, now_ts)
              ELSE LET loaded == [m EXCEPT !.tasks = Put(m.tasks, t, task)] IN
                   IF Expired(task, now_ts)
                   THEN ScanStore(rest, seen \cup {t},
                            [loaded EXCEPT !.tasks = Put(loaded.tasks, t, Released(task)),
                                           !.store = Put(loaded.store, t, Released(task)),
                                           !.pending = loaded.pending \cup {t},
                                           !.released = Append(loaded.released, t)],
                            now_ts)
                   ELSE ScanStore(rest, seen \cup {t}, loaded, now_ts)

\* The second loop: the cached tasks
RECURSIVE ScanTasks(_, _, _)
ScanTasks(keys, m, now_ts) ==
    IF keys = <<>> THEN m
    ELSE LET t == Head(keys)
             rest == Tail(keys) IN
         IF t \notin DOMAIN m.tasks
         THEN ScanTasks(rest, m, now_ts)
         ELSE LET task == m.tasks[t] IN
              IF task.state # "ASSIGNED" \/ task.claimed_at = NoNum
              THEN ScanTasks(rest, m, now_ts)
              ELSE IF Expired(task, now_ts)
              THEN ScanTasks(rest,
                       [m EXCEPT !.tasks = Put(m.tasks, t, Released(task)),
                                 !.store = Put(m.store, t, Released(task)),
                                 !.pending = m.pending \cup {t},
                                 !.released = Append(m.released, t)],
                       now_ts)
              ELSE ScanTasks(rest, m, now_ts)

ReleaseExpiredClaims(now_ts) ==
    LET m0 == [tasks |-> tasks, store |-> store,
               pending |-> pending_task_ids, released |-> <<>>]
        m1 == ScanStore(TaskSeq, DOMAIN tasks, m0, now_ts)
        m2 == ScanTasks(TaskSeq, m1, now_ts) IN
    /\ tasks' = m2.tasks
    /\ store' = m2.store
    /\ pending_task_ids' = m2.pending
    /\ call' = Ret("release_expired_claims", None, None, "list", m2.released)
    /\ UNCHANGED now

\* A new TaskManager over the same store (a restart of the process, or a
\* second manager object): the cache and the pending index start empty.
Restart ==
    /\ tasks' = EmptyDict
    /\ pending_task_ids' = {}
    /\ call' = Ret("init", None, None, "none", <<>>)
    /\ UNCHANGED <<store, now>>

\* time.monotonic() advances
AdvanceClock ==
    /\ now < MaxTime
    /\ now' = now + 1
    /\ call' = Ret("monotonic", None, None, "none", <<>>)
    /\ UNCHANGED <<tasks, pending_task_ids, store>>

(***************************************************************************)
(* claim() called by concurrent threads.  The method takes no lock: a      *)
(* thread can be preempted between the test of task.state and the writes.  *)
(***************************************************************************)
\* Lines 52-61 of claim: the lookup and the test of the state
ClaimCheck(a, t) ==
    /\ claiming[a] = None
    /\ LET cached == Lookup(t) IN
       IF t \notin DOMAIN cached
       THEN /\ call' = Ret("claim", a, t, "false", <<>>)
            /\ UNCHANGED <<taskVars, concVars>>
       ELSE IF cached[t].state # "PENDING"
       THEN /\ tasks' = cached
            /\ call' = Ret("claim", a, t, "false", <<>>)
            /\ UNCHANGED <<pending_task_ids, store, now, concVars>>
       ELSE /\ tasks' = cached
            /\ claiming' = [claiming EXCEPT ![a] = t]
            /\ UNCHANGED <<pending_task_ids, store, now, call, winners>>

\* Lines 63-68 of claim: the writes to the task object, and return True
ClaimAssign(a) ==
    /\ claiming[a] # None
    /\ LET t == claiming[a]
           task == [tasks[t] EXCEPT !.state = "ASSIGNED",
                                    !.assigned_to = a,
                                    !.claimed_at = now] IN
       /\ tasks' = Put(tasks, t, task)
       /\ pending_task_ids' = pending_task_ids \ {t}
       /\ store' = Put(store, t, task)
       /\ call' = Ret("claim", a, t, "true", <<>>)
       /\ winners' = [winners EXCEPT ![t] = @ \cup {a}]
       /\ claiming' = [claiming EXCEPT ![a] = None]
       /\ UNCHANGED now

\* release_expired_claims, after which the released tasks can be claimed anew
ReleaseConc(n) ==
    /\ ReleaseExpiredClaims(n)
    /\ winners' = [t \in TaskIds |->
                      IF Count(t, call'.out) > 0 THEN {} ELSE winners[t]]
    /\ UNCHANGED claiming

(***************************************************************************)
(* PoolManager                                                             *)
(***************************************************************************)
\* Trust scores in halves: 0.0, 0.5, 1.0 are 0, 1, 2
TrustMin == 0
TrustMax == 2
TrustDefault == 1
TrustDeltas == {-1, 1}

\* The specs create_pool is given: the admission policy instance (none,
\* OpenAdmission, WhitelistAdmission, TokenAdmission), whether the
\* application's TrustModel is attached, and the trust threshold
PoolSpecs ==
    {[policy |-> "none", whitelist |-> {}, trust_model |-> FALSE, trust_threshold |-> 0],
     [policy |-> "whitelist", whitelist |-> {"a1"}, trust_model |-> FALSE, trust_threshold |-> 0],
     [policy |-> "none", whitelist |-> {}, trust_model |-> TRUE, trust_threshold |-> 2],
     [policy |-> "open", whitelist |-> {}, trust_model |-> TRUE, trust_threshold |-> 1],
     [policy |-> "token", whitelist |-> {}, trust_model |-> FALSE, trust_threshold |-> 0]}

\* The spec of a pool without admission policy and without trust model
OpenPool ==
    [policy |-> "none", whitelist |-> {}, trust_model |-> FALSE, trust_threshold |-> 0]

\* policy.can_admit(agent_id, pool_context); join_pool's context has the
\* keys pool_id, existing_agents and topics, and no token
CanAdmit(pool, a, pool_context) ==
    CASE pool.policy = "open" -> TRUE
      [] pool.policy = "whitelist" -> a \in pool.whitelist
      [] pool.policy = "token" -> FALSE
      [] OTHER -> TRUE

\* trust_model.get_trust(agent_id)
GetTrust(a) == scores[a]

CreatePool(p, spec) ==
    LET pool == [agents |-> {}, policy |-> spec.policy, whitelist |-> spec.whitelist,
                 trust_model |-> spec.trust_model,
                 trust_threshold |-> spec.trust_threshold] IN
    /\ pools' = Put(pools, p, pool)
    /\ pool_store' = Put(pool_store, p, pool)
    /\ call' = Ret("create_pool", None, p, p, <<>>)
    /\ UNCHANGED scores

\* The lookup of join_pool, leave_pool and get_pool
LookupPool(p) ==
    IF p \in DOMAIN pools THEN pools
    ELSE IF p \in DOMAIN pool_store THEN Put(pools, p, pool_store[p])
    ELSE pools

\* join_pool that asks the trust model before the admission policy
JoinPoolTrustFirst(a, p) ==
    LET cached == LookupPool(p) IN
    IF p \notin DOMAIN cached
    THEN /\ call' = Ret("join_pool", a, p, "false", <<>>)
         /\ UNCHANGED poolVars
    ELSE LET pool == cached[p]
             pool_context == [pool_id |-> p, existing_agents |-> pool.agents] IN
         IF pool.trust_model /\ GetTrust(a) < pool.trust_threshold
         THEN /\ pools' = cached
              /\ call' = Ret("join_pool", a, p, "false", <<"get_trust">>)
              /\ UNCHANGED <<pool_store, scores>>
         ELSE LET asked == IF pool.trust_model THEN <<"get_trust">> ELSE <<>> IN
              IF pool.policy # "none" /\ ~CanAdmit(pool, a, pool_context)
              THEN /\ pools' = cached
                   /\ call' = Ret("join_pool", a, p, "false", Append(asked, "can_admit"))
                   /\ UNCHANGED <<pool_store, scores>>
              ELSE LET joined == [pool EXCEPT !.agents = @ \cup {a}] IN
                   /\ pools' = Put(cached, p, joined)
                   /\ pool_store' = Put(pool_store, p, joined)
                   /\ call' = Ret("join_pool", a, p, "true",
                                  IF pool.policy # "none"
                                  THEN Append(asked, "can_admit") ELSE asked)
                   /\ UNCHANGED scores

\* join_pool(agent_id, pool_id); call.out lists the collaborators it asked
JoinPool(a, p) ==
    LET cached == LookupPool(p) IN
    IF p \notin DOMAIN cached
    THEN /\ call' = Ret("join_pool", a, p, "false", <<>>)
         /\ UNCHANGED poolVars
    ELSE LET pool == cached[p]
             pool_context == [pool_id |-> p, existing_agents |-> pool.agents] IN
         IF pool.policy # "none" /\ ~CanAdmit(pool, a, pool_context)
         THEN /\ pools' = cached
              /\ call' = Ret("join_pool", a, p, "false", <<"can_admit">>)
              /\ UNCHANGED <<pool_store, scores>>
         ELSE LET asked == IF pool.policy # "none" THEN <<"can_admit">> ELSE <<>> IN
              IF pool.trust_model /\ GetTrust(a) < pool.trust_threshold
              THEN /\ pools' = cached
                   /\ call' = Ret("join_pool", a, p, "false", Append(asked, "get_trust"))
                   /\ UNCHANGED <<pool_store, scores>>
              ELSE LET joined == [pool EXCEPT !.agents = @ \cup {a}] IN
                   /\ pools' = Put(cached, p, joined)
                   /\ pool_store' = Put(pool_store, p, joined)
                   /\ call' = Ret("join_pool", a, p, "true",
                                  IF pool.trust_model
                                  THEN Append(asked, "get_trust") ELSE asked)
                   /\ UNCHANGED scores

\* leave_pool without the final store.put
LeavePoolNotPersisted(a, p) ==
    LET cached == LookupPool(p) IN
    IF p \notin DOMAIN cached
    THEN /\ call' = Ret("leave_pool", a, p, "none", <<>>)
         /\ UNCHANGED poolVars
    ELSE LET left == [cached[p] EXCEPT !.agents = @ \ {a}] IN
         /\ pools' = Put(cached, p, left)
         /\ call' = Ret("leave_pool", a, p, "none",
                        IF a \in cached[p].agents THEN <<"removed">> ELSE <<>>)
         /\ UNCHANGED <<pool_store, scores>>

\* leave_pool(agent_id, pool_id); out tells whether a member was removed
LeavePool(a, p) ==
    LET cached == LookupPool(p) IN
    IF p \notin DOMAIN cached
    THEN /\ call' = Ret("leave_pool", a, p, "none", <<>>)
         /\ UNCHANGED poolVars
    ELSE LET left == [cached[p] EXCEPT !.agents = @ \ {a}] IN
         /\ pools' = Put(cached, p, left)
         /\ pool_store' = Put(pool_store, p, left)
         /\ call' = Ret("leave_pool", a, p, "none",
                        IF a \in cached[p].agents THEN <<"removed">> ELSE <<>>)
         /\ UNCHANGED scores

GetPool(p) ==
    /\ pools' = LookupPool(p)
    /\ call' = Ret("get_pool", None, p,
                   IF p \in DOMAIN pools \/ p \in DOMAIN pool_store THEN p ELSE None, <<>>)
    /\ UNCHANGED <<pool_store, scores>>

\* get_pools_for_agent(agent_id), as the set of the ids it returns
GetPoolsForAgent(a) ==
    {p \in DOMAIN pools : a \in pools[p].agents}
    \cup {p \in DOMAIN pool_store : p \notin DOMAIN pools /\ a \in pool_store[p].agents}

\* The order in which a walk over self.pools or over store.list("pool:")
\* meets the pool ids
PoolSeq == <<"p1", "p2">>

\* The first loop of get_pools_for_agent: the cached pools agent_id is in
RECURSIVE CachedPoolsOf(_, _, _)
CachedPoolsOf(keys, cache, a) ==
    IF keys = <<>> THEN <<>>
    ELSE LET pid == Head(keys)
             rest == CachedPoolsOf(Tail(keys), cache, a) IN
         IF pid \in DOMAIN cache /\ a \in cache[pid].agents
         THEN <<pid>> \o rest ELSE rest

\* The second loop without "if pid in self.pools: continue"
RECURSIVE StoredPoolsOfAll(_, _, _, _)
StoredPoolsOfAll(keys, cache, stored, a) ==
    IF keys = <<>> THEN <<>>
    ELSE LET pid == Head(keys)
             rest == StoredPoolsOfAll(Tail(keys), cache, stored, a) IN
         IF pid \in DOMAIN stored /\ a \in stored[pid].agents
         THEN <<pid>> \o rest ELSE rest

\* The second loop of get_pools_for_agent: the stored pools that are not
\* cached and that agent_id is in
RECURSIVE StoredPoolsOf(_, _, _, _)
StoredPoolsOf(keys, cache, stored, a) ==
    IF keys = <<>> THEN <<>>
    ELSE LET pid == Head(keys)
             rest == StoredPoolsOf(Tail(keys), cache, stored, a) IN
         IF pid \in DOMAIN stored /\ pid \notin DOMAIN cache /\ a \in stored[pid].agents
         THEN <<pid>> \o rest ELSE rest

\* get_pools_for_agent(agent_id) of a manager whose self.pools is cache over
\* a store whose pool: entries are stored, as the list it returns
GetPoolsForAgentList(cache, stored, a) ==
    CachedPoolsOf(PoolSeq, cache, a) \o StoredPoolsOf(PoolSeq, cache, stored, a)

\* trust_model.update_trust(agent_id, score_delta)
UpdateTrust(a, score_delta) ==
    LET current == scores[a]
        new_score == IF current + score_delta < TrustMin THEN TrustMin
                     ELSE IF current + score_delta > TrustMax THEN TrustMax
                     ELSE current + score_delta IN
    /\ scores' = [scores EXCEPT ![a] = new_score]
    /\ call' = Ret("update_trust", a, None, "none", <<>>)
    /\ UNCHANGED <<pools, pool_store>>

\* A new PoolManager over the same store
RestartPools ==
    /\ pools' = EmptyDict
    /\ call' = Ret("init", None, None, "none", <<>>)
    /\ UNCHANGED <<pool_store, scores>>

(***************************************************************************)
(* Transports                                                              *)
(***************************************************************************)
MaxQueue == 1
Peers == {"a1", "a2", "a3"}
Namespaces == {"x", "y"}

\* Message(sender, recipient, topics, signature): topics as the set of their
\* namespaces, the empty signature b"" as <<>>
Message(sender, recipient, topics, signature) ==
    [sender |-> sender, recipient |-> recipient, topics |-> topics,
     signature |-> signature]

\* registry.get_subscribers_for_topics(topic_namespaces)
GetSubscribersForTopics(topic_namespaces) ==
    {p \in DOMAIN topic_subscriptions :
        topic_subscriptions[p] \cap topic_namespaces # {}}

\* registry.subscribe(agent_id, topic_namespace)
Subscribe(p, ns) ==
    /\ topic_subscriptions' =
          Put(topic_subscriptions, p,
              IF p \in DOMAIN topic_subscriptions
              THEN topic_subscriptions[p] \cup {ns} ELSE {ns})
    /\ call' = Ret("subscribe", None, None, "none", <<>>)
    /\ UNCHANGED <<started, queue, queues>>

\* registry.unsubscribe(agent_id, topic_namespace)
Unsubscribe(p, ns) ==
    /\ topic_subscriptions' =
          IF p \in DOMAIN topic_subscriptions
          THEN Put(topic_subscriptions, p, topic_subscriptions[p] \ {ns})
          ELSE topic_subscriptions
    /\ call' = Ret("unsubscribe", None, None, "none", <<>>)
    /\ UNCHANGED <<started, queue, queues>>

\* LocalTransport.start: registry.register, then _started
LocalStart(a) ==
    /\ queues' = queues \cup {a}
    /\ started' = [started EXCEPT ![a] = TRUE]
    /\ call' = Ret("local.start", a, None, "none", <<>>)
    /\ UNCHANGED <<queue, topic_subscriptions>>

\* LocalTransport.stop: registry.unregister drops the queue and the
\* subscriptions of the agent
LocalStop(a) ==
    /\ queues' = queues \ {a}
    /\ topic_subscriptions' =
          [p \in DOMAIN topic_subscriptions \ {a} |-> topic_subscriptions[p]]
    /\ started' = [started EXCEPT ![a] = FALSE]
    /\ call' = Ret("local.stop", a, None, "none", <<>>)
    /\ UNCHANGED queue

\* The targets of LocalTransport.send
Targets(message) ==
    IF message.recipient # None THEN {message.recipient}
    ELSE IF message.topics # {}
    THEN LET subscribers == GetSubscribersForTopics(message.topics) IN
         IF subscribers = {} THEN queues ELSE subscribers
    ELSE queues

\* send that does not skip the sender's own queue
SendPutsToSender(a, message) ==
    {p \in Targets(message) : p \in queues}

\* send that skips the sender's own queue also when it is the recipient
SendPutsSkipsSelf(a, message) ==
    {p \in Targets(message) : p # a /\ p \in queues}

\* The targets send puts the message to
SendPuts(a, message) ==
    {p \in Targets(message) :
        /\ ~(p = a /\ message.recipient = None)
        /\ p \in queues}

\* LocalTransport.send(message) of the transport of agent a
LocalSend(a, message) ==
    /\ \A p \in Peers : Len(queue[p]) < MaxQueue
    /\ IF ~started[a]
       THEN /\ call' = Ret("local.send", a, None, "raise", <<message>>)
            /\ UNCHANGED queue
       ELSE /\ queue' = [p \in Peers |->
                IF p \in SendPuts(a, message) THEN Append(queue[p], message)
                ELSE queue[p]]
            /\ call' = Ret("local.send", a, None, "none", <<message>>)
    /\ UNCHANGED <<started, queues, topic_subscriptions>>

\* LocalTransport.receive() with a message in the queue, or not started
LocalReceive(a) ==
    /\ IF ~started[a]
       THEN /\ call' = Ret("local.receive", a, None, "raise", <<>>)
            /\ UNCHANGED queue
       ELSE /\ queue[a] # <<>>
            /\ queue' = [queue EXCEPT ![a] = Tail(@)]
            /\ call' = Ret("local.receive", a, None, "message", <<Head(queue[a])>>)
    /\ UNCHANGED <<started, queues, topic_subscriptions>>

\* TcpTransport.start: the server listens
TcpStart(a) ==
    /\ tcp_server' = [tcp_server EXCEPT ![a] = TRUE]
    /\ call' = Ret("tcp.start", a, None, "none", <<>>)
    /\ UNCHANGED <<tcp_inbox, ws, sideVars>>

\* TcpTransport.stop: the server is closed
TcpStop(a) ==
    /\ tcp_server' = [tcp_server EXCEPT ![a] = FALSE]
    /\ call' = Ret("tcp.stop", a, None, "none", <<>>)
    /\ UNCHANGED <<tcp_inbox, ws, sideVars>>

\* TcpTransport.send(message): target is the agent listening at the host
\* and port of the message's transport.tcp topic, None without such a
\* topic.  The frame written to a listening peer is read by its
\* _handle_client and put into its inbox; a refused connection is
\* swallowed.  The task field of the call tells who got the frame.
TcpSend(a, message, target) ==
    IF target = None
    THEN /\ call' = Ret("tcp.send", a, None, "none", <<message>>)
         /\ UNCHANGED <<tcp_server, tcp_inbox, ws, sideVars>>
    ELSE /\ Len(tcp_inbox[target]) < MaxQueue
         /\ IF tcp_server[target]
            THEN /\ tcp_inbox' = [tcp_inbox EXCEPT ![target] = Append(@, message)]
                 /\ call' = Ret("tcp.send", a, target, "none", <<message>>)
            ELSE /\ call' = Ret("tcp.send", a, None, "none", <<message>>)
                 /\ UNCHANGED tcp_inbox
         /\ UNCHANGED <<tcp_server, ws, sideVars>>

\* TcpTransport.receive(timeout): inbox.get(), a TimeoutError when the
\* inbox stays empty
TcpReceive(a) ==
    /\ IF tcp_inbox[a] # <<>>
       THEN /\ tcp_inbox' = [tcp_inbox EXCEPT ![a] = Tail(@)]
            /\ call' = Ret("tcp.receive", a, None, "message", <<Head(tcp_inbox[a])>>)
       ELSE /\ call' = Ret("tcp.receive", a, None, "timeout", <<>>)
            /\ UNCHANGED tcp_inbox
    /\ UNCHANGED <<tcp_server, ws, sideVars>>

\* WebSocketTransport.start: the connection to the server at uri is open
WsStart(a) ==
    /\ ws' = [ws EXCEPT ![a] = TRUE]
    /\ call' = Ret("ws.start", a, None, "none", <<>>)
    /\ UNCHANGED <<tcp_server, tcp_inbox, sideVars>>

\* WebSocketTransport.stop
WsStop(a) ==
    /\ ws' = [ws EXCEPT ![a] = FALSE]
    /\ call' = Ret("ws.stop", a, None, "none", <<>>)
    /\ UNCHANGED <<tcp_server, tcp_inbox, sideVars>>

\* WebSocketTransport.send(message): returns when there is no open
\* connection, else sends the frame to the server
WsSend(a, message) ==
    /\ call' = Ret("ws.send", a, IF ws[a] THEN "server" ELSE None, "none", <<message>>)
    /\ UNCHANGED <<tcp_server, tcp_inbox, ws, sideVars>>

\* WebSocketTransport.receive(timeout) while the server sends nothing
WsReceive(a) ==
    /\ call' = Ret("ws.receive", a, None, "timeout", <<>>)
    /\ UNCHANGED <<tcp_server, tcp_inbox, ws, sideVars>>

(***************************************************************************)
(* TcpTransport's pool of outbound connections, send by send.  The calls   *)
(* of send are coroutines of one event loop: a step runs from one await    *)
(* that suspends to the next.                                              *)
(***************************************************************************)
\* The peers (host, port) the frames go to, the coroutines that call send,
\* and how many connections and calls there are at most
TcpKeys == {"k1", "k2"}
Senders == {"s1", "s2"}
MaxConns == 3
MaxSends == 2
NoConn == 0

\* A sender that is not inside send, after n calls
IdleSend(n) == [pc |-> "idle", key |-> None, conn |-> NoConn, n |-> n]

\* What asyncio.open_connection returns with a new asyncio.Lock()
OpenConnection(k) == [key |-> k, closed |-> FALSE, lock |-> None, wire |-> <<>>]

\* writer.write(data): the transport of a closed connection takes nothing
WriterWrite(conn, item) ==
    IF conn.closed THEN conn ELSE [conn EXCEPT !.wire = Append(@, item)]

\* The body of "async with lock" without writer.write(data)
LockedWritesPrefixOnly(conn, s, frame) ==
    [WriterWrite(conn, [kind |-> "len", frame |-> frame]) EXCEPT !.lock = s]

\* The body of "async with lock" up to the await of drain: the length
\* prefix, then the payload, with no await in between
LockedWrites(conn, s, frame) ==
    [WriterWrite(WriterWrite(conn, [kind |-> "len", frame |-> frame]),
                 [kind |-> "data", frame |-> frame]) EXCEPT !.lock = s]

\* "async with lock" of sender s with connection c of conns: a free lock is
\* taken and the frame of call n is written, a held lock suspends s
EnterLock(s, k, c, conns, n, op) ==
    IF conns[c].lock = None
    THEN /\ tcp_conns' = [conns EXCEPT ![c] = LockedWrites(@, s, <<s, n>>)]
         /\ tcp_send' = [tcp_send EXCEPT ![s] = [pc |-> "drain", key |-> k, conn |-> c, n |-> n]]
         /\ call' = Ret(op, s, k, "drain", <<c>>)
    ELSE /\ tcp_conns' = conns
         /\ tcp_send' = [tcp_send EXCEPT ![s] = [pc |-> "lock", key |-> k, conn |-> c, n |-> n]]
         /\ call' = Ret(op, s, k, "lock", <<c>>)

\* The handler of "except Exception" in send: the entry that is pooled
\* under key now is closed and deleted
Evict(k, pool, conns) ==
    IF pool[k] = NoConn THEN [pool |-> pool, conns |-> conns]
    ELSE [pool |-> [pool EXCEPT ![k] = NoConn],
          conns |-> [conns EXCEPT ![pool[k]].closed = TRUE]]

TcpFrame == UNCHANGED <<tcp_server, tcp_inbox, ws, kvVars, lateVars, negVars>>

\* send(message), to its first suspension; k is the peer of the message's
\* transport.tcp topic, None without one.  _get_connection returns the
\* pooled entry whose writer is not closing, else deletes the entry and
\* awaits open_connection
TcpSendCall(s, k) ==
    /\ tcp_send[s].pc = "idle"
    /\ tcp_send[s].n < MaxSends
    /\ TcpFrame
    /\ IF k = None
       THEN /\ call' = Ret("tcp.send", s, None, "none", <<NoConn>>)
            /\ UNCHANGED connVars
       ELSE IF tcp_pool[k] # NoConn /\ ~tcp_conns[tcp_pool[k]].closed
       THEN /\ EnterLock(s, k, tcp_pool[k], tcp_conns, tcp_send[s].n + 1, "tcp.send.pooled")
            /\ UNCHANGED tcp_pool
       ELSE /\ tcp_pool' = [tcp_pool EXCEPT ![k] = NoConn]
            /\ tcp_send' = [tcp_send EXCEPT ![s] =
                               [pc |-> "open", key |-> k, conn |-> NoConn, n |-> @.n + 1]]
            /\ call' = Ret("tcp.send.connect", s, k, "open", <<NoConn>>)
            /\ UNCHANGED tcp_conns

\* open_connection returns: the new entry is stored under the key, whatever
\* is stored there, and send goes on to the lock
TcpOpenReturns(s) ==
    /\ tcp_send[s].pc = "open"
    /\ Len(tcp_conns) < MaxConns
    /\ TcpFrame
    /\ LET k == tcp_send[s].key
           c == Len(tcp_conns) + 1 IN
       /\ tcp_pool' = [tcp_pool EXCEPT ![k] = c]
       /\ EnterLock(s, k, c, Append(tcp_conns, OpenConnection(k)), tcp_send[s].n,
                    "tcp.send.opened")

\* open_connection raises (the peer refuses): the handler of send runs
TcpOpenRaises(s) ==
    /\ tcp_send[s].pc = "open"
    /\ TcpFrame
    /\ LET k == tcp_send[s].key
           after == Evict(k, tcp_pool, tcp_conns) IN
       /\ tcp_pool' = after.pool
       /\ tcp_conns' = after.conns
       /\ tcp_send' = [tcp_send EXCEPT ![s] = IdleSend(@.n)]
       /\ call' = Ret("tcp.send", s, k, "error", <<NoConn>>)

\* The lock a sender waits for is released: it takes it and writes
TcpLockAcquired(s) ==
    /\ tcp_send[s].pc = "lock"
    /\ tcp_conns[tcp_send[s].conn].lock = None
    /\ TcpFrame
    /\ EnterLock(s, tcp_send[s].key, tcp_send[s].conn, tcp_conns, tcp_send[s].n,
                 "tcp.send.locked")
    /\ UNCHANGED tcp_pool

\* drain returns: the lock is released and send returns
TcpDrainReturns(s) ==
    /\ tcp_send[s].pc = "drain"
    /\ TcpFrame
    /\ tcp_conns' = [tcp_conns EXCEPT ![tcp_send[s].conn].lock = None]
    /\ tcp_send' = [tcp_send EXCEPT ![s] = IdleSend(@.n)]
    /\ call' = Ret("tcp.send", s, tcp_send[s].key, "none", <<tcp_send[s].conn>>)
    /\ UNCHANGED tcp_pool

\* drain raises, the connection of the sender being lost: the lock is
\* released and the handler of send runs
TcpDrainRaises(s) ==
    /\ tcp_send[s].pc = "drain"
    /\ TcpFrame
    /\ LET k == tcp_send[s].key
           c == tcp_send[s].conn
           lost == [tcp_conns EXCEPT ![c].lock = None, ![c].closed = TRUE]
           after == Evict(k, tcp_pool, lost) IN
       /\ tcp_pool' = after.pool
       /\ tcp_conns' = after.conns
       /\ tcp_send' = [tcp_send EXCEPT ![s] = IdleSend(@.n)]
       /\ call' = Ret("tcp.send", s, k, "error", <<c>>)

\* The peer closes connection c: its writer is closing from now on
TcpPeerCloses(c) ==
    /\ c \in 1..Len(tcp_conns)
    /\ ~tcp_conns[c].closed
    /\ TcpFrame
    /\ tcp_conns' = [tcp_conns EXCEPT ![c].closed = TRUE]
    /\ call' = Ret("tcp.peer_closes", None, tcp_conns[c].key, "none", <<c>>)
    /\ UNCHANGED <<tcp_pool, tcp_send>>

\* stop() of the transport of agent a while no send is under way: the
\* server is closed, the writer of every pooled entry is closed and the
\* pool is cleared
TcpStopPool(a) ==
    /\ \A s \in Senders : tcp_send[s].pc = "idle"
    /\ tcp_server' = [tcp_server EXCEPT ![a] = FALSE]
    /\ tcp_conns' = [c \in 1..Len(tcp_conns) |->
                        IF \E k \in TcpKeys : tcp_pool[k] = c
                        THEN [tcp_conns[c] EXCEPT !.closed = TRUE] ELSE tcp_conns[c]]
    /\ tcp_pool' = [k \in TcpKeys |-> NoConn]
    /\ call' = Ret("tcp.stop", a, None, "none", <<NoConn>>)
    /\ UNCHANGED <<tcp_inbox, ws, tcp_send, kvVars, lateVars, negVars>>

(***************************************************************************)
(* Store.put_if_absent called by concurrent threads.  MemoryStore and      *)
(* FileStore do not override it: they run the method of the base class,    *)
(* which takes no lock, so a thread can be preempted between its get and   *)
(* its put.                                                                *)
(***************************************************************************)
StoreKeys == {"x", "y"}
StoreCallers == {"c1", "c2", "c3"}

\* A caller that is not inside put_if_absent
IdleCaller == [pc |-> "idle", key |-> None, value |-> None]

\* store.get(key), None for a missing key
StoreGet(data, key) == data[key]

\* store.put(key, value)
StorePut(data, key, value) == [data EXCEPT ![key] = value]

\* put_if_absent(key, value) up to the return of its get: false when the
\* key has a value, else the caller goes on to put
PutIfAbsentGet(th, key, value) ==
    /\ pia_pc[th].pc = "idle"
    /\ IF StoreGet(kv_data, key) # None
       THEN /\ call' = Ret("put_if_absent", th, key, "false", <<value>>)
            /\ UNCHANGED pia_pc
       ELSE /\ pia_pc' = [pia_pc EXCEPT ![th] = [pc |-> "put", key |-> key, value |-> value]]
            /\ call' = Ret("put_if_absent.get", th, key, "absent", <<value>>)
    /\ UNCHANGED <<kv_data, pia_true>>

\* The rest of put_if_absent: put, and true is returned
PutIfAbsentPut(th) ==
    /\ pia_pc[th].pc = "put"
    /\ kv_data' = StorePut(kv_data, pia_pc[th].key, pia_pc[th].value)
    /\ pia_true' = [pia_true EXCEPT ![pia_pc[th].key] = Append(@, th)]
    /\ pia_pc' = [pia_pc EXCEPT ![th] = IdleCaller]
    /\ call' = Ret("put_if_absent", th, pia_pc[th].key, "true", <<pia_pc[th].value>>)

(***************************************************************************)
(* NegotiationProtocol: the sessions of one protocol object.  A session id *)
(* and a proposal id are fresh uuids: a session takes an id no session     *)
(* has, a proposal its place in the history.                               *)
(***************************************************************************)
SessionIds == {"n1", "n2"}
Negotiators == {"a1", "a2", "a3"}
Initiators == {"a1"}
Invited == {<<>>, <<"a2">>}
Contents == {"deal", "counter"}
MaxProposals == 2

\* The states propose() turns away
Settled == {"accepted", "rejected", "closed"}

Proposal(n, agent, content) ==
    [id |-> n, proposer_id |-> agent, content |-> content, timestamp |-> 0]

\* A session's current_proposal that is None
NoProposal == Proposal(0, None, None)

\* agent_id in session.participants
IsParticipant(agent, session) ==
    \E i \in 1..Len(session.participants) : session.participants[i] = agent

\* create_session(initiator_id, participants, initial_proposal)
CreateSession(sid, initiator, participants, content) ==
    /\ sid \notin DOMAIN sessions
    /\ sessions' = sessions @@ (sid :>
                       [participants |-> <<initiator>> \o participants,
                        history |-> <<Proposal(1, initiator, content)>>,
                        state |-> "proposed",
                        current_proposal |-> Proposal(1, initiator, content)])
    /\ call' = Ret("create_session", initiator, sid, sid, <<content>>)

\* propose(session_id, agent_id, content)
Propose(sid, agent, content) ==
    IF sid \notin DOMAIN sessions \/ sessions[sid].state \in Settled
    THEN /\ call' = Ret("propose", agent, sid, "false", <<content>>)
         /\ UNCHANGED sessions
    ELSE IF ~IsParticipant(agent, sessions[sid])
    THEN /\ call' = Ret("propose", agent, sid, "false", <<content>>)
         /\ UNCHANGED sessions
    ELSE /\ Len(sessions[sid].history) < MaxProposals
         /\ sessions' = [sessions EXCEPT ![sid] =
                [@ EXCEPT !.history = Append(@, Proposal(Len(@) + 1, agent, content)),
                          !.current_proposal =
                              Proposal(Len(sessions[sid].history) + 1, agent, content),
                          !.state = "countered"]]
         /\ call' = Ret("propose", agent, sid, "true", <<content>>)

\* accept(session_id, agent_id)
Accept(sid, agent) ==
    IF sid \notin DOMAIN sessions \/ sessions[sid].current_proposal = NoProposal
    THEN /\ call' = Ret("accept", agent, sid, "false", <<>>)
         /\ UNCHANGED sessions
    ELSE IF ~IsParticipant(agent, sessions[sid])
    THEN /\ call' = Ret("accept", agent, sid, "false", <<>>)
         /\ UNCHANGED sessions
    ELSE /\ sessions' = [sessions EXCEPT ![sid].state = "accepted"]
         /\ call' = Ret("accept", agent, sid, "true", <<>>)

\* reject(session_id, agent_id)
Reject(sid, agent) ==
    IF sid \notin DOMAIN sessions
    THEN /\ call' = Ret("reject", agent, sid, "false", <<>>)
         /\ UNCHANGED sessions
    ELSE IF ~IsParticipant(agent, sessions[sid])
    THEN /\ call' = Ret("reject", agent, sid, "false", <<>>)
         /\ UNCHANGED sessions
    ELSE /\ sessions' = [sessions EXCEPT ![sid].state = "rejected"]
         /\ call' = Ret("reject", agent, sid, "true", <<>>)

(***************************************************************************)
(* AgentRuntime and StandardExecutor                                       *)
(***************************************************************************)
ClaimTask(t) == [type |-> "ClaimTask", task_id |-> t, result |-> None]
ReportTask(t, r) == [type |-> "ReportTask", task_id |-> t, result |-> r]

\* decide of the worker agent: claim the first pending task it is shown and
\* report it done
Decide(first) == <<ClaimTask(first), ReportTask(first, "done")>>

\* The runtimes built with a discovery_service, and those built with an
\* identity_registry; the registry holds the public keys of the agents
WithDiscovery == Agents
WithRegistry == {"a2"}

\* What start() does, in the order in which it does it
StartSteps(a) ==
    <<"on_start", "transport_start">>
    \o (IF a \in WithDiscovery THEN <<"register">> ELSE <<>>)
    \o <<"spawn_listener", "spawn_main">>

\* a start() without "if self.running: return"
StartUnguarded(a) ==
    /\ stop_pc[a] = "idle"
    /\ running' = [running EXCEPT ![a] = TRUE]
    /\ queues' = queues \cup {a}
    /\ started' = [started EXCEPT ![a] = TRUE]
    /\ descriptors' = IF a \in WithDiscovery THEN descriptors \cup {a} ELSE descriptors
    /\ discovery_store' =
          IF a \in WithDiscovery THEN discovery_store \cup {a} ELSE discovery_store
    /\ listen_pc' = [listen_pc EXCEPT ![a] = "receive"]
    /\ rt_pc' = [rt_pc EXCEPT ![a] = "wait"]
    /\ start_log' = [start_log EXCEPT ![a] = StartSteps(a)]
    /\ cancelled' = [cancelled EXCEPT ![a] = {}]
    /\ call' = Ret("start", a, None, "none", <<>>)
    /\ UNCHANGED <<rt_decisions, claim_log, queue, topic_subscriptions, remoteVars>>
    /\ UNCHANGED <<rt_inbox, wake, messages_received, decided, stop_pc, stop_log>>
    /\ UNCHANGED <<taskVars, concVars, poolVars, execVars, sched_pc, notified, inbox_cfg,
                   pushing, hooks, safety_policy, decisions_executed>>

\* AgentRuntime.start on a runtime that is not running, while no stop() of
\* the runtime is under way: running, on_start, transport.start() of its
\* LocalTransport, the registration with discovery, and the new listener
\* and main loop tasks; start_log holds what the last call of start() did
Start(a) ==
    /\ ~running[a]
    /\ stop_pc[a] = "idle"
    /\ start_log' = [start_log EXCEPT ![a] = StartSteps(a)]
    /\ cancelled' = [cancelled EXCEPT ![a] = {}]
    /\ running' = [running EXCEPT ![a] = TRUE]
    /\ queues' = queues \cup {a}
    /\ started' = [started EXCEPT ![a] = TRUE]
    /\ descriptors' = IF a \in WithDiscovery THEN descriptors \cup {a} ELSE descriptors
    /\ discovery_store' =
          IF a \in WithDiscovery THEN discovery_store \cup {a} ELSE discovery_store
    /\ listen_pc' = [listen_pc EXCEPT ![a] = "receive"]
    /\ rt_pc' = [rt_pc EXCEPT ![a] = "wait"]
    /\ call' = Ret("start", a, None, "none", <<>>)
    /\ UNCHANGED <<rt_decisions, claim_log, queue, topic_subscriptions, remoteVars>>
    /\ UNCHANGED <<rt_inbox, wake, messages_received, decided, stop_pc, stop_log>>
    /\ UNCHANGED <<taskVars, concVars, poolVars, execVars, sched_pc, notified, inbox_cfg,
                   pushing, hooks, safety_policy, decisions_executed>>

\* start() on a running runtime returns at once
StartAgain(a) ==
    /\ running[a]
    /\ start_log' = [start_log EXCEPT ![a] = <<>>]
    /\ call' = Ret("start", a, None, "none", <<>>)
    /\ UNCHANGED <<taskVars, concVars, poolVars, rtVars, netVars>>
    /\ UNCHANGED <<listen_pc, rt_inbox, wake, messages_received, decided, descriptors,
                   discovery_store, stop_pc, stop_log, execVars, sched_pc, notified,
                   inbox_cfg, pushing, hooks, cancelled, safety_policy,
                   decisions_executed>>

\* One pass of the main loop up to the call of decide: wait_for_work
\* returns, the pending tasks visible to the agent are listed with its
\* pools and its capabilities (none), and on_tick and decide are called
\* when there is a task.  The inbox is empty.
Wake(a) ==
    /\ running[a]
    /\ rt_pc[a] = "wait"
    /\ LET pool_ids == GetPoolsForAgent(a)
           shown == ListPendingTasksForAgent(pool_ids, {}) IN
       /\ shown # {}
       /\ \E first \in shown :
             /\ rt_decisions' = [rt_decisions EXCEPT ![a] = Decide(first)]
             /\ rt_pc' = [rt_pc EXCEPT ![a] = "decide"]
    /\ UNCHANGED <<running, claim_log>>
    /\ UNCHANGED <<taskVars, call, concVars, poolVars, netVars, nodeVars>>

\* A decision that raises ends the whole batch
ExecuteDecisionUncaught(st, a, d) ==
    IF st.raised THEN st
    ELSE IF d.type = "ClaimTask"
    THEN LET r == DoClaim(st.m, st.clock, a, d.task_id) IN
         [st EXCEPT !.m = r.m,
                    !.won = IF r.ret = "true" THEN Append(@, d.task_id) ELSE @,
                    !.lost = IF r.ret = "true" THEN @ ELSE Append(@, d.task_id)]
    ELSE IF d.type = "ReportTask"
    THEN LET r == DoReport(st.m, a, d.task_id, d.result) IN
         [st EXCEPT !.m = r.m,
                    !.errors = IF r.ret = "raise" THEN @ + 1 ELSE @,
                    !.raised = (r.ret = "raise")]
    ELSE st

\* The body of the loop of StandardExecutor.execute for one decision, with
\* no safety policy: the manager call, a failed claim logged, an exception
\* caught and logged.  st is [m, clock, won, lost, errors, raised].
ExecuteDecision(st, a, d) ==
    IF d.type = "ClaimTask"
    THEN LET r == DoClaim(st.m, st.clock, a, d.task_id) IN
         [st EXCEPT !.m = r.m,
                    !.won = IF r.ret = "true" THEN Append(@, d.task_id) ELSE @,
                    !.lost = IF r.ret = "true" THEN @ ELSE Append(@, d.task_id)]
    ELSE IF d.type = "ReportTask"
    THEN LET r == DoReport(st.m, a, d.task_id, d.result) IN
         [st EXCEPT !.m = r.m,
                    !.errors = IF r.ret = "raise" THEN @ + 1 ELSE @]
    ELSE st

\* StandardExecutor.execute(decisions): every decision in order
RECURSIVE ExecuteAll(_, _, _)
ExecuteAll(decisions, st, a) ==
    IF decisions = <<>> THEN st
    ELSE ExecuteAll(Tail(decisions), ExecuteDecision(st, a, Head(decisions)), a)

\* The rest of the pass: decide returns and the executor runs the batch; an
\* exception out of execute would end the main loop's task
Execute(a) ==
    /\ running[a]
    /\ rt_pc[a] = "decide"
    /\ \E st \in {ExecuteAll(rt_decisions[a],
                              [m |-> TM, clock |-> now, won |-> <<>>, lost |-> <<>>,
                               errors |-> 0, raised |-> FALSE], a)} :
       /\ Apply(st.m)
       /\ claim_log' = [t \in TaskIds |->
              [won |-> claim_log[t].won + Count(t, st.won),
               lost |-> IF Count(t, st.lost) > 0 THEN claim_log[t].lost \cup {a}
                        ELSE claim_log[t].lost]]
       /\ call' = Ret("execute", a, None, IF st.errors > 0 THEN "logged" ELSE "none",
                      st.lost)
       /\ running' = [running EXCEPT ![a] = ~st.raised]
       /\ rt_pc' = [rt_pc EXCEPT ![a] = IF st.raised THEN "stopped" ELSE "wait"]
    /\ rt_decisions' = [rt_decisions EXCEPT ![a] = <<>>]
    /\ UNCHANGED <<now, concVars, poolVars, netVars, nodeVars>>

\* getattr(agent, "capabilities", None): a1 has the capability c1, a2 has
\* no such attribute
AgentCapabilities(a) == IF a = "a1" THEN {"c1"} ELSE NoFilter

\* The task polling of a pass of the main loop of a runtime with both
\* managers: the pools of the agent, its capabilities or [], and the
\* listing; out holds the set of the tasks on_tick and decide are given
PollTasks(a) ==
    LET pool_ids == GetPoolsForAgent(a)
        capabilities == IF AgentCapabilities(a) = NoFilter THEN {}
                        ELSE AgentCapabilities(a) IN
    /\ call' = Ret("poll_tasks", a, None, "list",
                   <<ListPendingTasksForAgent(pool_ids, capabilities)>>)
    /\ UNCHANGED <<taskVars, poolVars>>

\* The tasks of that polling; a runtime without task manager has none
ShownTasks(a) ==
    IF a \in {"a1"}
    THEN ListPendingTasksForAgent(GetPoolsForAgent(a),
                                  IF AgentCapabilities(a) = NoFilter THEN {}
                                  ELSE AgentCapabilities(a))
    ELSE {}

(***************************************************************************)
(* Inbox                                                                   *)
(***************************************************************************)
\* The messages a transport receives are numbered in their order of arrival
MaxArrivals == 11

\* and as many of them at a runtime with a bounded inbox
MaxBounded == 4

\* poll(batch_size=10)
DefaultBatchSize == 10

Min(x, y) == IF x < y THEN x ELSE y

\* asyncio.Queue.full(): a queue with maxsize 0 is never full
InboxFull(cfg, q) == cfg.maxsize > 0 /\ Len(q) >= cfg.maxsize

\* a push that puts the message on the queue whatever its size
PushAlways(cfg, q) == "queued"

\* Inbox.push(message) on the queue q: the message is discarded, or put
\* waits for a free slot, or the message is queued
Push(cfg, q) ==
    IF cfg.drop_when_full /\ InboxFull(cfg, q) THEN "dropped"
    ELSE IF InboxFull(cfg, q) THEN "blocked"
    ELSE "queued"

\* a poll that takes all there is
PollAll(q, batch_size) == [messages |-> q, rest |-> <<>>]

\* Inbox.poll(batch_size): get_nowait while fewer than batch_size messages
\* are taken and the queue is not empty
Poll(q, batch_size) ==
    LET n == IF batch_size < 0 THEN 0 ELSE Min(batch_size, Len(q)) IN
    [messages |-> SubSeq(q, 1, n), rest |-> SubSeq(q, n + 1, Len(q))]

(***************************************************************************)
(* Signed messages, the listener and the shutdown of a runtime             *)
(***************************************************************************)
MaxMessages == 1

\* Message._serialize_for_signing: the fields a signature covers
SerializeForSigning(message) ==
    <<message.sender, message.recipient, message.topics>>

\* message.sign(identity): the signature is made with the identity's key
\* over the message as it is, then the sender is set to the fingerprint
Sign(message, identity) ==
    [message EXCEPT !.signature = <<identity>> \o SerializeForSigning(message),
                    !.sender = identity]

\* message.verify(public_key), the key named by its owner
Verify(message, key_owner) ==
    /\ message.signature # <<>>
    /\ message.signature = <<key_owner>> \o SerializeForSigning(message)

\* The identities that hold a private key, and the public keys verify is
\* given: those of the peers and one that is no Ed25519 key at all
Signers == {"a1", "a2"}
PublicKeys == Peers \cup {"malformed"}

\* The messages sign is called on: the sender is the default "", or a
\* fingerprint
SignInputs ==
    {Message(sender, recipient, topics, <<>>) :
        sender \in {"", "a1", "a2"}, recipient \in {None, "a2"}, topics \in {{}, {"x"}}}

\* What can be made of a signed message afterwards: the message itself, the
\* message with one signed field changed, and the message without signature
Afterwards(signed) ==
    {signed, [signed EXCEPT !.signature = <<>>]}
    \cup {[signed EXCEPT !.sender = v] : v \in {"", "a1", "a2"}}
    \cup {[signed EXCEPT !.recipient = v] : v \in {None, "a1", "a2"}}
    \cup {[signed EXCEPT !.topics = v] : v \in {{}, {"x"}, {"y"}}}

\* message.sign(identity): ValueError for an identity without private key
SignCall(message, identity) ==
    /\ call' = IF identity \notin Signers
               THEN Ret("sign", identity, None, "raise", <<message>>)
               ELSE Ret("sign", identity, None, "message", <<message, Sign(message, identity)>>)
    /\ UNCHANGED <<taskVars, concVars, poolVars, rtVars, netVars, nodeVars>>

\* received.verify(public_key), received being what was made of the
\* message that sign has just returned; out keeps the message sign was
\* called on, the signer, the message verified and the key
VerifyCall(received, key) ==
    /\ call.op = "sign" /\ call.ret = "message"
    /\ received \in Afterwards(call.out[2])
    /\ call' = Ret("verify", key, None,
                   IF Verify(received, key) THEN "true" ELSE "false",
                   <<call.out[1], call.agent, received>>)
    /\ UNCHANGED <<taskVars, concVars, poolVars, rtVars, netVars, nodeVars>>

\* IdentityRegistry.get(agent_id) of the registry the runtimes are given
RegistryGet(agent_id) == IF agent_id \in Agents THEN agent_id ELSE None

\* The keyword parameters receive() of a transport class takes
ReceiveParams(kind) == IF kind = "local" THEN {} ELSE {"timeout"}

\* Transport.receive_verified(identity_registry) of a transport of the
\* given class whose queue q holds a message: receive(timeout=timeout),
\* then the lookup of the sender's key and verify
ReceiveVerified(kind, q) ==
    IF "timeout" \notin ReceiveParams(kind)
    THEN [ret |-> "raise", out |-> <<>>, rest |-> q]
    ELSE LET msg == Head(q)
             pubkey == RegistryGet(msg.sender) IN
         IF pubkey # None /\ Verify(msg, pubkey)
         THEN [ret |-> "message", out |-> <<msg>>, rest |-> Tail(q)]
         ELSE [ret |-> "none", out |-> <<>>, rest |-> Tail(q)]

\* registry.get_queue(b).put(message) by the application
QueuePut(b, message) ==
    /\ b \in queues
    /\ Len(queue[b]) < MaxQueue
    /\ queue' = [queue EXCEPT ![b] = Append(@, message)]
    /\ call' = Ret("queue.put", None, b, "none", <<message>>)
    /\ UNCHANGED <<started, queues, topic_subscriptions>>

\* One pass of _listen_transport with a message in the transport's queue:
\* receive_verified or receive, the counter, the push to the inbox and the
\* notification of the scheduler; a None is dropped, an exception is
\* logged and followed by a sleep of one second
Listen(a) ==
    /\ running[a]
    /\ listen_pc[a] = "receive"
    /\ queue[a] # <<>>
    /\ messages_received[a] < MaxMessages
    /\ LET r == IF a \in WithRegistry THEN ReceiveVerified("local", queue[a])
                ELSE [ret |-> "message", out |-> <<Head(queue[a])>>,
                      rest |-> Tail(queue[a])] IN
       /\ queue' = [queue EXCEPT ![a] = r.rest]
       /\ call' = Ret(IF a \in WithRegistry THEN "receive_verified" ELSE "receive",
                      a, None, r.ret, r.out)
       /\ IF r.ret = "message"
          THEN /\ messages_received' = [messages_received EXCEPT ![a] = @ + 1]
               /\ rt_inbox' = [rt_inbox EXCEPT ![a] = @ \o r.out]
               /\ wake' = [wake EXCEPT ![a] = TRUE]
          ELSE UNCHANGED <<messages_received, rt_inbox, wake>>
    /\ UNCHANGED <<started, queues, topic_subscriptions, remoteVars>>
    /\ UNCHANGED <<listen_pc, decided, descriptors, discovery_store, stop_pc, stop_log>>
    /\ UNCHANGED <<taskVars, concVars, poolVars, rtVars, execVars, loopVars>>

\* One pass of the main loop of a runtime without managers, woken by the
\* scheduler: the inbox is polled and decide is called with the messages;
\* it returns no decision, or raises, which ends the main loop's task
Tick(a) ==
    /\ running[a]
    /\ rt_pc[a] = "wait"
    /\ wake[a]
    /\ wake' = [wake EXCEPT ![a] = FALSE]
    /\ rt_inbox' = [rt_inbox EXCEPT ![a] = Poll(@, DefaultBatchSize).rest]
    /\ IF rt_inbox[a] = <<>>
       THEN UNCHANGED <<decided, rt_pc>>
       ELSE /\ decided' = [decided EXCEPT ![a] =
                  @ \o Poll(rt_inbox[a], DefaultBatchSize).messages]
            /\ \E raises \in BOOLEAN :
                  rt_pc' = [rt_pc EXCEPT ![a] = IF raises THEN "dead" ELSE "wait"]
    /\ UNCHANGED <<running, rt_decisions, claim_log, call>>
    /\ UNCHANGED <<listen_pc, messages_received, descriptors, discovery_store,
                   stop_pc, stop_log>>
    /\ UNCHANGED <<taskVars, concVars, poolVars, netVars, execVars, loopVars>>

\* stop() up to its first await: running, scheduler.notify(), and the
\* cancellation of the listener task when there is one
StopBegin(a) ==
    /\ stop_pc[a] = "idle"
    /\ running' = [running EXCEPT ![a] = FALSE]
    /\ wake' = [wake EXCEPT ![a] = TRUE]
    /\ stop_log' = [stop_log EXCEPT ![a] =
          <<"running_false", "notify">>
          \o (IF listen_pc[a] # "none" THEN <<"cancel_listener">> ELSE <<>>)]
    /\ stop_pc' = [stop_pc EXCEPT ![a] = "await_listener"]
    /\ UNCHANGED <<rt_pc, rt_decisions, claim_log, call>>
    /\ UNCHANGED <<listen_pc, rt_inbox, messages_received, decided, descriptors,
                   discovery_store>>
    /\ UNCHANGED <<taskVars, concVars, poolVars, netVars, execVars, loopVars>>

\* stop() from the end of the listener task to the await of the main loop's
\* task, which it cancels
StopListener(a) ==
    /\ stop_pc[a] = "await_listener"
    /\ listen_pc' = [listen_pc EXCEPT ![a] = IF @ = "none" THEN "none" ELSE "done"]
    /\ stop_log' = [stop_log EXCEPT ![a] =
          @ \o (IF listen_pc[a] # "none" THEN <<"listener_done">> ELSE <<>>)
            \o (IF rt_pc[a] # "stopped" THEN <<"cancel_loop">> ELSE <<>>)]
    /\ stop_pc' = [stop_pc EXCEPT ![a] = "await_loop"]
    /\ UNCHANGED <<rtVars, call>>
    /\ UNCHANGED <<rt_inbox, wake, messages_received, decided, descriptors,
                   discovery_store>>
    /\ UNCHANGED <<taskVars, concVars, poolVars, netVars, execVars, loopVars>>

\* The rest of stop(): the await of the main loop's task raises the
\* exception that ended it, if one did; else transport.stop(), the
\* unregistration from discovery, on_stop, and both task fields set to None
StopLoop(a) ==
    /\ stop_pc[a] = "await_loop"
    /\ stop_pc' = [stop_pc EXCEPT ![a] = "idle"]
    /\ IF rt_pc[a] = "dead"
       THEN /\ call' = Ret("stop", a, None, "raise", <<>>)
            /\ UNCHANGED <<rt_pc, listen_pc, stop_log, localVars, descriptors,
                           discovery_store>>
       ELSE /\ call' = Ret("stop", a, None, "none", <<>>)
            /\ rt_pc' = [rt_pc EXCEPT ![a] = "stopped"]
            /\ listen_pc' = [listen_pc EXCEPT ![a] = "none"]
            /\ queues' = queues \ {a}
            /\ topic_subscriptions' =
                  [p \in DOMAIN topic_subscriptions \ {a} |-> topic_subscriptions[p]]
            /\ started' = [started EXCEPT ![a] = FALSE]
            /\ descriptors' =
                  IF a \in WithDiscovery THEN descriptors \ {a} ELSE descriptors
            /\ discovery_store' =
                  IF a \in WithDiscovery THEN discovery_store \ {a} ELSE discovery_store
            /\ stop_log' = [stop_log EXCEPT ![a] =
                  @ \o (IF rt_pc[a] # "stopped" THEN <<"loop_done">> ELSE <<>>)
                    \o <<"transport_stop">>
                    \o (IF a \in WithDiscovery THEN <<"unregister">> ELSE <<>>)
                    \o <<"on_stop">>]
            /\ UNCHANGED queue
    /\ UNCHANGED <<running, rt_decisions, claim_log>>
    /\ UNCHANGED <<rt_inbox, wake, messages_received, decided>>
    /\ UNCHANGED <<taskVars, concVars, poolVars, remoteVars, execVars, loopVars>>

(***************************************************************************)
(* Scheduler                                                               *)
(***************************************************************************)
\* Scheduler.notify(): the event is set; a second set changes nothing
Notify(a) ==
    /\ wake' = [wake EXCEPT ![a] = TRUE]
    /\ notified' = [notified EXCEPT ![a] = TRUE]
    /\ call' = Ret("notify", a, None, "none", <<>>)
    /\ UNCHANGED sched_pc

\* wait_for_work that returns True on a timeout as well
WaitTimesOutTrue(a) ==
    /\ sched_pc[a] = "timed_out"
    /\ sched_pc' = [sched_pc EXCEPT ![a] = "idle"]
    /\ wake' = [wake EXCEPT ![a] = FALSE]
    /\ notified' = [notified EXCEPT ![a] = FALSE]
    /\ call' = Ret("wait_for_work", a, None, "true", <<"waited">>)

\* wait_for_work(timeout) is called: with the event set, wait() returns at
\* once, the event is cleared and True returned; else the call waits
WaitBegin(a) ==
    /\ sched_pc[a] = "idle"
    /\ IF wake[a]
       THEN /\ wake' = [wake EXCEPT ![a] = FALSE]
            /\ notified' = [notified EXCEPT ![a] = FALSE]
            /\ call' = Ret("wait_for_work", a, None, "true", <<"at once">>)
            /\ UNCHANGED sched_pc
       ELSE /\ sched_pc' = [sched_pc EXCEPT ![a] = "waiting"]
            /\ call' = Ret("wait_for_work", a, None, "waiting", <<>>)
            /\ UNCHANGED <<wake, notified>>

\* The timeout of wait_for expires first and cancels the wait on the event
WaitExpires(a) ==
    /\ sched_pc[a] = "waiting"
    /\ ~wake[a]
    /\ sched_pc' = [sched_pc EXCEPT ![a] = "timed_out"]
    /\ call' = Ret("timeout", a, None, "none", <<>>)
    /\ UNCHANGED <<wake, notified>>

\* The waiting call is woken by the event: clear, and True
WaitWoken(a) ==
    /\ sched_pc[a] = "waiting"
    /\ wake[a]
    /\ sched_pc' = [sched_pc EXCEPT ![a] = "idle"]
    /\ wake' = [wake EXCEPT ![a] = FALSE]
    /\ notified' = [notified EXCEPT ![a] = FALSE]
    /\ call' = Ret("wait_for_work", a, None, "true", <<"waited">>)

\* The timed out call returns False through "except TimeoutError"; an
\* event set in between stays set
WaitTimesOut(a) ==
    /\ sched_pc[a] = "timed_out"
    /\ sched_pc' = [sched_pc EXCEPT ![a] = "idle"]
    /\ call' = Ret("wait_for_work", a, None, "false", <<"waited">>)
    /\ UNCHANGED <<wake, notified>>

(***************************************************************************)
(* The decisions of a tick: StandardExecutor and the legacy fallback       *)
(***************************************************************************)
MaxTicks == 2

\* The runtimes built with a task_manager and a pool_manager, whose
\* decisions a StandardExecutor runs; the others use the legacy fallback.
\* The executors are built with a tool registry, a custom handler and
\* tool_timeout_sec.
WithManagers == {"a1"}
WithToolTimeout == {"a1"}

SendMessage(message) == [type |-> "SendMessage", message |-> message]
\* behaviour of tool.run: "returns", "raises", or "overruns" when it is
\* still running after tool_timeout_sec and has its effect later
InvokeTool(behaviour) == [type |-> "InvokeTool", behaviour |-> behaviour]
\* A decision of a custom type, whose registered handler raises or not
CustomDecision(raises) == [type |-> "Custom", raises |-> raises]
\* A Message returned by decide as a decision
MessageDecision(message) == [type |-> "Message", message |-> message]

\* Agent.sign_message(message)
SignMessage(a, message) == Sign(message, a)

\* transport.send(message) of the in-process transport inside a batch: st.q
\* is the queues' content, st.raised the exception out of send
NetworkSend(st, a, n, i, decision_message, message, via) ==
    IF ~started[a] THEN [st EXCEPT !.raised = TRUE]
    ELSE [st EXCEPT
            !.q = [p \in Peers |->
                     IF p \in SendPuts(a, message) THEN Append(st.q[p], message)
                     ELSE st.q[p]],
            !.sent = Append(@, [tick |-> n, idx |-> i, via |-> via,
                                decision_message |-> decision_message,
                                message |-> message]),
            !.effects = Append(@, [tick |-> n, idx |-> i, late |-> FALSE])]

\* The SendMessage branch of an executor that signs an unsigned message
SendMessageSigned(st, a, n, i, d) ==
    NetworkSend(st, a, n, i, d.message,
                IF d.message.signature = <<>> THEN SignMessage(a, d.message)
                ELSE d.message, "executor")

\* The SendMessage branch of StandardExecutor.execute:
\* network.send(decision.message)
SendMessageBranch(st, a, n, i, d) ==
    NetworkSend(st, a, n, i, d.message, d.message, "executor")

\* The InvokeTool branch: tool.run on a worker thread under wait_for when
\* tool_timeout_sec is set, else called directly; a timeout and an
\* exception of the tool are logged there
InvokeToolBranch(st, a, n, i, d) ==
    IF d.behaviour = "returns"
    THEN [st EXCEPT !.effects = Append(@, [tick |-> n, idx |-> i, late |-> FALSE])]
    ELSE IF d.behaviour = "overruns"
    THEN IF a \in WithToolTimeout
         THEN [st EXCEPT !.threads = @ \cup {[tick |-> n, idx |-> i]}]
         ELSE [st EXCEPT !.effects = Append(@, [tick |-> n, idx |-> i, late |-> FALSE])]
    ELSE st

\* safety_policy=None of StandardExecutor
NoPolicy == [configured |-> FALSE, allowed_actions |-> NoFilter, limits |-> <<>>]

\* safety_policy=(limits, action_policy); <<>> is None for the limits and
\* NoFilter is None for the action policy
SafetyPolicy(limits, action_policy) ==
    [configured |-> TRUE, allowed_actions |-> action_policy, limits |-> limits]

\* ResourceLimits(max_cpu_tokens, max_memory_mb)
ResourceLimits(max_cpu_tokens, max_memory_mb) ==
    <<[max_cpu_tokens |-> max_cpu_tokens, max_memory_mb |-> max_memory_mb]>>

\* ActionPolicy(allowed_actions).allowed_actions: None for an empty list
ActionPolicy(allowed_actions) ==
    IF allowed_actions = {} THEN NoFilter ELSE allowed_actions

\* ActionPolicy.is_allowed(action_name)
IsAllowed(allowed_actions, action_name) ==
    allowed_actions = NoFilter \/ action_name \in allowed_actions

\* validate_safety(limits, requested_cpu, requested_mem)
ValidateSafety(limits, requested_cpu, requested_mem) ==
    IF requested_cpu > limits.max_cpu_tokens THEN FALSE
    ELSE ~(requested_mem > limits.max_memory_mb)

\* Task(constraints={"cpu": cpu, "memory_mb": memory_mb}), cpu in tokens and
\* memory in whole megabytes
ConstrainedTask(cpu, memory_mb) ==
    [NewTask(NoNum, None) EXCEPT !.cpu = cpu, !.memory_mb = memory_mb]

SubmitTask(t, task) == [type |-> "SubmitTask", task_id |-> t, task |-> task]

\* get_task(task_id) on the manager state m: a task found in the store
\* only is cached, and registered as pending when it is PENDING
GetTaskIn(m, t) ==
    IF t \in DOMAIN m.tasks \/ t \notin DOMAIN m.store THEN m
    ELSE [m EXCEPT !.tasks = Put(m.tasks, t, m.store[t]),
                   !.pending = IF m.store[t].state = "PENDING" THEN @ \cup {t} ELSE @]

\* submit(task) on the manager state m
SubmitIn(m, t, task) ==
    [tasks |-> Put(m.tasks, t, task),
     pending |-> IF task.state = "PENDING" THEN m.pending \cup {t} ELSE m.pending,
     store |-> Put(m.store, t, task)]

\* The safety pre-check of execute for decision d: the action policy by
\* the name of the decision's type, then the limits for a SubmitTask, by
\* the constraints of its task, and for a ClaimTask, by those of the task
\* get_task returns; st.skip tells that the decision is dropped
SafetyPreCheck(st, a, d) ==
    LET policy == safety_policy[a] IN
    IF ~policy.configured THEN st
    ELSE IF ~IsAllowed(policy.allowed_actions, d.type) THEN [st EXCEPT !.skip = TRUE]
    ELSE IF policy.limits = <<>> \/ d.type \notin {"SubmitTask", "ClaimTask"} THEN st
    ELSE IF d.type = "SubmitTask"
    THEN [st EXCEPT !.skip = ~ValidateSafety(policy.limits[1], d.task.cpu,
                                             d.task.memory_mb)]
    ELSE LET m == GetTaskIn(st.m, d.task_id) IN
         [st EXCEPT !.m = m,
                    !.skip = /\ d.task_id \in DOMAIN m.tasks
                             /\ ~ValidateSafety(policy.limits[1], m.tasks[d.task_id].cpu,
                                                m.tasks[d.task_id].memory_mb)]

\* The body of the try block of StandardExecutor.execute for decision d,
\* number i of the batch of tick n, after the pre-check and the counter;
\* st.raised tells that it raised
DecisionBody(st, a, n, i, d) ==
    IF d.type = "SendMessage" THEN SendMessageBranch(st, a, n, i, d)
    ELSE IF d.type = "SubmitTask"
    THEN [st EXCEPT !.m = SubmitIn(st.m, d.task_id, d.task),
                    !.effects = Append(@, [tick |-> n, idx |-> i, late |-> FALSE])]
    ELSE IF d.type = "ClaimTask"
    THEN LET r == DoClaim(st.m, now, a, d.task_id) IN
         [st EXCEPT !.m = r.m,
                    !.effects = IF r.ret = "true"
                                THEN Append(@, [tick |-> n, idx |-> i, late |-> FALSE])
                                ELSE @]
    ELSE IF d.type = "ReportTask"
    THEN LET r == DoReport(st.m, a, d.task_id, d.result) IN
         IF r.ret = "raise" THEN [st EXCEPT !.raised = TRUE]
         ELSE [st EXCEPT !.m = r.m,
                         !.effects = Append(@, [tick |-> n, idx |-> i, late |-> FALSE])]
    ELSE IF d.type = "InvokeTool" THEN InvokeToolBranch(st, a, n, i, d)
    ELSE IF d.type = "Custom"
    THEN IF d.raises THEN [st EXCEPT !.raised = TRUE]
         ELSE [st EXCEPT !.effects = Append(@, [tick |-> n, idx |-> i, late |-> FALSE])]
    ELSE st

\* a try block without the pre-check
TryBlockUnchecked(st, a, n, i, d) ==
    DecisionBody([st EXCEPT !.executed = @ + 1], a, n, i, d)

\* The try block of execute for decision d: the pre-check, "continue" for
\* a dropped decision, else the counter decisions_executed and the body
TryBlock(st, a, n, i, d) ==
    LET checked == SafetyPreCheck(st, a, d) IN
    IF checked.skip THEN checked
    ELSE DecisionBody([checked EXCEPT !.executed = @ + 1], a, n, i, d)

\* One decision without the except clause: the exception leaves execute
ExecutorStepUncaught(st, a, n, i, d) ==
    IF st.raised THEN st
    ELSE LET r == TryBlock(st, a, n, i, d) IN
         [r EXCEPT !.skip = FALSE,
                   !.outcomes = Append(@, IF r.skip THEN "rejected"
                                          ELSE IF r.raised THEN "raise" ELSE "ok")]

\* One decision of the loop of StandardExecutor.execute: the try block and
\* "except Exception", which logs
ExecutorStep(st, a, n, i, d) ==
    IF st.raised THEN st
    ELSE LET r == TryBlock(st, a, n, i, d) IN
         [r EXCEPT !.raised = FALSE, !.skip = FALSE,
                   !.outcomes = Append(@, IF r.skip THEN "rejected"
                                          ELSE IF r.raised THEN "logged" ELSE "ok")]

\* AgentRuntime._execute_decision_fallback(decision): a decision with a
\* sender is signed when it has no signature and sent; anything else is
\* ignored; an exception of send leaves the main loop
FallbackStep(st, a, n, i, d) ==
    IF st.raised THEN st
    ELSE IF d.type = "Message"
    THEN LET r == NetworkSend(st, a, n, i, d.message,
                              IF d.message.signature = <<>>
                              THEN SignMessage(a, d.message) ELSE d.message,
                              "fallback") IN
         [r EXCEPT !.outcomes = Append(@, IF r.raised THEN "raise" ELSE "ok")]
    ELSE [st EXCEPT !.outcomes = Append(@, "ignored")]

\* A loop that takes the decisions from the last to the first
RECURSIVE RunBatchReversed(_, _, _, _, _)
RunBatchReversed(decisions, st, a, n, i) ==
    IF decisions = <<>> THEN st
    ELSE LET rest == RunBatchReversed(Tail(decisions), st, a, n, i + 1) IN
         IF a \in WithManagers THEN ExecutorStep(rest, a, n, i, Head(decisions))
         ELSE FallbackStep(rest, a, n, i, Head(decisions))

\* "for decision in decisions" of execute, and of the main loop for the
\* fallback: decision i of the batch of tick n, then the rest
RECURSIVE RunBatch(_, _, _, _, _)
RunBatch(decisions, st, a, n, i) ==
    IF decisions = <<>> THEN st
    ELSE RunBatch(Tail(decisions),
                  IF a \in WithManagers THEN ExecutorStep(st, a, n, i, Head(decisions))
                  ELSE FallbackStep(st, a, n, i, Head(decisions)),
                  a, n, i + 1)

\* The message an agent sends to the peer a3, unsigned
Unsigned(a) == Message(a, "a3", {}, <<>>)

\* The batches decide returns to an executor with a safety policy
SafetyBatches(a) ==
    {<<SendMessage(Unsigned(a)), SubmitTask("t1", ConstrainedTask(2, 0))>>,
     <<SubmitTask("t1", ConstrainedTask(0, 2)), SubmitTask("t2", ConstrainedTask(1, 1))>>,
     <<ClaimTask("t1"), SendMessage(Unsigned(a))>>,
     <<ClaimTask("t2"), ClaimTask("t1")>>}

\* The batches decide returns
Batches(a) ==
    IF safety_policy[a].configured THEN SafetyBatches(a)
    ELSE IF a \in WithManagers
    THEN {<<CustomDecision(TRUE), SendMessage(Unsigned(a))>>,
          <<ReportTask("t1", "done"), SendMessage(Sign(Unsigned(a), a))>>,
          <<SendMessage(Unsigned(a)), InvokeTool("overruns")>>,
          <<InvokeTool("overruns"), CustomDecision(FALSE)>>,
          <<InvokeTool("raises"), InvokeTool("returns")>>}
    ELSE {<<MessageDecision(Unsigned(a))>>,
          <<MessageDecision(Sign(Unsigned(a), a)), SendMessage(Unsigned(a))>>}

\* One pass of the main loop in which decide returns decisions: they are
\* run by the executor, or one by one by the fallback, and an exception
\* ends the main loop's task
RunTick(a) ==
    /\ running[a]
    /\ rt_pc[a] = "wait"
    /\ tick_no[a] < MaxTicks
    /\ \A p \in Peers : Len(queue[p]) < MaxQueue
    /\ \E decisions \in Batches(a) :
       \E st \in {RunBatch(decisions,
                           [m |-> TM, q |-> queue, sent |-> sent[a],
                            effects |-> effects[a], threads |-> tool_threads[a],
                            outcomes |-> <<>>, raised |-> FALSE, skip |-> FALSE,
                            executed |-> decisions_executed[a]],
                           a, tick_no[a] + 1, 1)} :
          /\ Apply(st.m)
          /\ queue' = st.q
          /\ sent' = [sent EXCEPT ![a] = st.sent]
          /\ effects' = [effects EXCEPT ![a] = st.effects]
          /\ tool_threads' = [tool_threads EXCEPT ![a] = st.threads]
          /\ decisions_executed' = [decisions_executed EXCEPT ![a] = st.executed]
          /\ rt_decisions' = [rt_decisions EXCEPT ![a] = decisions]
          /\ rt_pc' = [rt_pc EXCEPT ![a] = IF st.raised THEN "dead" ELSE "wait"]
          /\ call' = Ret("run_tick", a, None,
                         IF st.raised THEN "raise" ELSE "none", st.outcomes)
    /\ tick_no' = [tick_no EXCEPT ![a] = @ + 1]
    /\ UNCHANGED <<now, running, claim_log, started, queues, topic_subscriptions>>
    /\ UNCHANGED <<listen_pc, rt_inbox, wake, messages_received, decided,
                   descriptors, discovery_store, stop_pc, stop_log>>
    /\ UNCHANGED <<concVars, poolVars, remoteVars, sched_pc, notified, inbox_cfg,
                   pushing, hooks, start_log, cancelled, safety_policy>>

\* A tool run left on its worker thread by a timeout has its effect
ToolThreadFinishes(a) ==
    /\ \E run \in tool_threads[a] :
          /\ tool_threads' = [tool_threads EXCEPT ![a] = @ \ {run}]
          /\ effects' = [effects EXCEPT ![a] =
                Append(@, [tick |-> run.tick, idx |-> run.idx, late |-> TRUE])]
    /\ call' = Ret("tool.run", a, None, "none", <<>>)
    /\ UNCHANGED <<tick_no, sent>>
    /\ UNCHANGED <<listen_pc, rt_inbox, wake, messages_received, decided,
                   descriptors, discovery_store, stop_pc, stop_log>>
    /\ UNCHANGED <<taskVars, concVars, poolVars, rtVars, netVars, loopVars>>

(***************************************************************************)
(* Inbox, and the passes of the listener and of the main loop step by step *)
(***************************************************************************)
\* How many messages arrive at a runtime with this inbox
ArrivalCap(cfg) == IF cfg.maxsize = 0 THEN MaxArrivals ELSE MaxBounded

\* What the steps of the listener and of the main loop leave alone
PassFrame ==
    UNCHANGED <<concVars, poolVars, remoteVars, started, queues, topic_subscriptions,
                running, claim_log, descriptors, discovery_store, stop_pc, stop_log,
                inbox_cfg, start_log, cancelled, safety_policy, now>>

\* A pass of _listen_transport of a runtime without identity registry:
\* receive returns the next message, the counter, the push on the inbox
\* and, once push has returned, the notification of the scheduler
ListenPush(a) ==
    /\ listen_pc[a] = "receive"
    /\ "listener" \notin cancelled[a]
    /\ messages_received[a] < ArrivalCap(inbox_cfg[a])
    /\ LET message == messages_received[a] + 1
           outcome == Push(inbox_cfg[a], rt_inbox[a]) IN
       /\ messages_received' = [messages_received EXCEPT ![a] = message]
       /\ rt_inbox' = [rt_inbox EXCEPT ![a] =
              IF outcome = "queued" THEN Append(@, message) ELSE @]
       /\ pushing' = [pushing EXCEPT ![a] =
              IF outcome = "blocked" THEN <<message>> ELSE <<>>]
       /\ listen_pc' = [listen_pc EXCEPT ![a] =
              IF outcome = "blocked" THEN "push" ELSE "receive"]
       /\ wake' = [wake EXCEPT ![a] = IF outcome = "blocked" THEN @ ELSE TRUE]
       /\ notified' = [notified EXCEPT ![a] = IF outcome = "blocked" THEN @ ELSE TRUE]
       /\ call' = Ret("push", a, None, outcome, <<message>>)
    /\ UNCHANGED <<tasks, pending_task_ids, store, rt_pc, rt_decisions, decided, queue,
                   execVars, sched_pc, hooks, decisions_executed>>
    /\ PassFrame

\* The put of a blocked push goes on once the queue has a free slot
ListenPushResumes(a) ==
    /\ listen_pc[a] = "push"
    /\ "listener" \notin cancelled[a]
    /\ ~InboxFull(inbox_cfg[a], rt_inbox[a])
    /\ rt_inbox' = [rt_inbox EXCEPT ![a] = @ \o pushing[a]]
    /\ pushing' = [pushing EXCEPT ![a] = <<>>]
    /\ listen_pc' = [listen_pc EXCEPT ![a] = "receive"]
    /\ wake' = [wake EXCEPT ![a] = TRUE]
    /\ notified' = [notified EXCEPT ![a] = TRUE]
    /\ call' = Ret("push", a, None, "resumed", pushing[a])
    /\ UNCHANGED <<tasks, pending_task_ids, store, rt_pc, rt_decisions, decided, queue,
                   messages_received, execVars, sched_pc, hooks, decisions_executed>>
    /\ PassFrame

\* inbox.poll(batch_size) called by the application
InboxPoll(a, batch_size) ==
    /\ rt_inbox' = [rt_inbox EXCEPT ![a] = Poll(@, batch_size).rest]
    /\ call' = Ret("poll", a, None, "list",
                   <<batch_size, Poll(rt_inbox[a], batch_size).messages>>)
    /\ UNCHANGED <<tasks, pending_task_ids, store, rt_pc, rt_decisions, decided, queue,
                   listen_pc, wake, messages_received, execVars, sched_pc, notified,
                   pushing, hooks, decisions_executed>>
    /\ PassFrame

\* a main loop that goes back to wait when wait_for_work returned False
LoopWaitIgnoresTimeout(a) ==
    /\ rt_pc[a] = "wait"
    /\ "loop" \notin cancelled[a]
    /\ sched_pc[a] = "idle" => running[a]
    /\ WaitBegin(a) \/ WaitWoken(a) \/ WaitTimesOut(a)
    /\ rt_pc' = [rt_pc EXCEPT ![a] = IF call'.ret = "true" THEN "batch" ELSE @]
    /\ hooks' = [hooks EXCEPT ![a] = <<>>]
    /\ UNCHANGED <<tasks, pending_task_ids, store, rt_decisions, decided, queue,
                   listen_pc, rt_inbox, messages_received, execVars, pushing,
                   decisions_executed>>
    /\ PassFrame

\* "while self.running" and wait_for_work(timeout=1.0) of the main loop:
\* the call, and its return on the event or on the timeout
LoopWait(a) ==
    /\ rt_pc[a] = "wait"
    /\ "loop" \notin cancelled[a]
    /\ sched_pc[a] = "idle" => running[a]
    /\ WaitBegin(a) \/ WaitWoken(a) \/ WaitTimesOut(a)
    /\ rt_pc' = [rt_pc EXCEPT ![a] = IF call'.ret = "waiting" THEN @ ELSE "batch"]
    /\ hooks' = [hooks EXCEPT ![a] = <<>>]
    /\ UNCHANGED <<tasks, pending_task_ids, store, rt_decisions, decided, queue,
                   listen_pc, rt_inbox, messages_received, execVars, pushing,
                   decisions_executed>>
    /\ PassFrame

\* The timeout of that wait_for_work expires
LoopWaitExpires(a) ==
    /\ rt_pc[a] = "wait"
    /\ "loop" \notin cancelled[a]
    /\ WaitExpires(a)
    /\ UNCHANGED <<tasks, pending_task_ids, store, rt_pc, rt_decisions, decided, queue,
                   listen_pc, rt_inbox, messages_received, execVars, pushing, hooks,
                   decisions_executed>>
    /\ PassFrame

\* What on_tick, decide and the executor are called with in a pass
Hook(op, messages, shown, decisions, raised) ==
    [op |-> op, messages |-> messages, tasks |-> shown, decisions |-> decisions,
     raised |-> raised]

\* The batches decide returns in these passes
DecideReturns(a) ==
    {<<>>} \cup (IF tick_no[a] < MaxTicks
                 THEN {<<CustomDecision(FALSE)>>,
                       <<ReportTask("t1", "done"), CustomDecision(TRUE)>>}
                 ELSE {})

\* a pass that calls on_tick and decide whatever was polled
LoopPollAlwaysDecides(a) ==
    /\ rt_pc[a] = "batch"
    /\ running[a]
    /\ rt_inbox' = [rt_inbox EXCEPT ![a] = Poll(@, DefaultBatchSize).rest]
    /\ hooks' = [hooks EXCEPT ![a] =
          <<Hook("on_tick", Poll(rt_inbox[a], DefaultBatchSize).messages,
                 ShownTasks(a), <<>>, FALSE),
            Hook("decide", Poll(rt_inbox[a], DefaultBatchSize).messages,
                 ShownTasks(a), <<>>, FALSE)>>]
    /\ decided' = [decided EXCEPT ![a] = @ \o Poll(rt_inbox[a], DefaultBatchSize).messages]
    /\ rt_pc' = [rt_pc EXCEPT ![a] = "wait"]
    /\ call' = Ret("pass", a, None, "decided", <<>>)
    /\ UNCHANGED <<tasks, pending_task_ids, store, queue, listen_pc, wake, rt_decisions,
                   messages_received, execVars, sched_pc, notified, pushing,
                   decisions_executed>>
    /\ PassFrame

\* The pass of the main loop from the return of wait_for_work to the return
\* of decide: the break when the runtime was stopped, the poll of the inbox
\* and of the tasks, and with a message or a task on_tick, then decide,
\* which returns a batch or raises
LoopPoll(a) ==
    /\ rt_pc[a] = "batch"
    /\ "loop" \notin cancelled[a]
    /\ IF ~running[a]
       THEN /\ rt_pc' = [rt_pc EXCEPT ![a] = "done"]
            /\ call' = Ret("pass", a, None, "break", <<>>)
            /\ UNCHANGED <<rt_inbox, hooks, decided, rt_decisions>>
       ELSE LET polled == Poll(rt_inbox[a], DefaultBatchSize)
                shown == ShownTasks(a) IN
            /\ rt_inbox' = [rt_inbox EXCEPT ![a] = polled.rest]
            /\ IF polled.messages = <<>> /\ shown = {}
               THEN /\ hooks' = [hooks EXCEPT ![a] = <<>>]
                    /\ rt_pc' = [rt_pc EXCEPT ![a] = "wait"]
                    /\ call' = Ret("pass", a, None, "idle", <<>>)
                    /\ UNCHANGED <<decided, rt_decisions>>
               ELSE /\ decided' = [decided EXCEPT ![a] = @ \o polled.messages]
                    /\ \/ /\ hooks' = [hooks EXCEPT ![a] =
                                <<Hook("on_tick", polled.messages, shown, <<>>, FALSE),
                                  Hook("decide", polled.messages, shown, <<>>, TRUE)>>]
                          /\ rt_pc' = [rt_pc EXCEPT ![a] = "dead"]
                          /\ call' = Ret("pass", a, None, "raise", <<>>)
                          /\ UNCHANGED rt_decisions
                       \/ \E decisions \in DecideReturns(a) :
                             /\ hooks' = [hooks EXCEPT ![a] =
                                   <<Hook("on_tick", polled.messages, shown, <<>>, FALSE),
                                     Hook("decide", polled.messages, shown, decisions,
                                          FALSE)>>]
                             /\ rt_decisions' = [rt_decisions EXCEPT ![a] = decisions]
                             /\ rt_pc' = [rt_pc EXCEPT ![a] =
                                   IF decisions = <<>> THEN "wait" ELSE "execute"]
                             /\ call' = Ret("pass", a, None, "decided", <<>>)
    /\ UNCHANGED <<tasks, pending_task_ids, store, queue, listen_pc, wake,
                   messages_received, execVars, sched_pc, notified, pushing,
                   decisions_executed>>
    /\ PassFrame

\* The rest of the pass: the executor, or the fallback, runs the batch
\* decide returned; an exception ends the main loop's task
LoopExecute(a) ==
    /\ rt_pc[a] = "execute"
    /\ "loop" \notin cancelled[a]
    /\ \E st \in {RunBatch(rt_decisions[a],
                           [m |-> TM, q |-> queue, sent |-> sent[a],
                            effects |-> effects[a], threads |-> tool_threads[a],
                            outcomes |-> <<>>, raised |-> FALSE, skip |-> FALSE,
                            executed |-> decisions_executed[a]],
                           a, tick_no[a] + 1, 1)} :
          /\ Apply(st.m)
          /\ queue' = st.q
          /\ sent' = [sent EXCEPT ![a] = st.sent]
          /\ effects' = [effects EXCEPT ![a] = st.effects]
          /\ tool_threads' = [tool_threads EXCEPT ![a] = st.threads]
          /\ decisions_executed' = [decisions_executed EXCEPT ![a] = st.executed]
          /\ rt_pc' = [rt_pc EXCEPT ![a] = IF st.raised THEN "dead" ELSE "wait"]
          /\ call' = Ret("execute", a, None,
                         IF st.raised THEN "raise" ELSE "none", st.outcomes)
    /\ hooks' = [hooks EXCEPT ![a] =
          Append(@, Hook("execute", <<>>, {}, rt_decisions[a], FALSE))]
    /\ tick_no' = [tick_no EXCEPT ![a] = @ + 1]
    /\ UNCHANGED <<rt_decisions, decided, listen_pc, rt_inbox, wake, messages_received,
                   sched_pc, notified, pushing>>
    /\ PassFrame

\* transport.receive of the listener raises: the warning and the sleep
ListenFails(a) ==
    /\ listen_pc[a] = "receive"
    /\ "listener" \notin cancelled[a]
    /\ listen_pc' = [listen_pc EXCEPT ![a] = "backoff"]
    /\ call' = Ret("receive", a, None, "raise", <<>>)
    /\ UNCHANGED <<tasks, pending_task_ids, store, rt_pc, rt_decisions, decided, queue,
                   rt_inbox, wake, messages_received, execVars, sched_pc, notified,
                   pushing, hooks, decisions_executed>>
    /\ PassFrame

\* The sleep of one second is over: "while self.running"
ListenBackoffEnds(a) ==
    /\ listen_pc[a] = "backoff"
    /\ "listener" \notin cancelled[a]
    /\ listen_pc' = [listen_pc EXCEPT ![a] = IF running[a] THEN "receive" ELSE "done"]
    /\ call' = Ret("sleep", a, None, "none", <<>>)
    /\ UNCHANGED <<tasks, pending_task_ids, store, rt_pc, rt_decisions, decided, queue,
                   rt_inbox, wake, messages_received, execVars, sched_pc, notified,
                   pushing, hooks, decisions_executed>>
    /\ PassFrame

\* a listener that catches the cancellation and goes on
ListenerSwallowsCancel(a) ==
    /\ "listener" \in cancelled[a]
    /\ listen_pc[a] \in {"receive", "push", "backoff"}
    /\ cancelled' = [cancelled EXCEPT ![a] = @ \ {"listener"}]
    /\ call' = Ret("listener", a, None, "cancelled", <<listen_pc[a]>>)
    /\ UNCHANGED <<taskVars, concVars, poolVars, rtVars, netVars>>
    /\ UNCHANGED <<listen_pc, rt_inbox, wake, messages_received, decided, descriptors,
                   discovery_store, stop_pc, stop_log, execVars, sched_pc, notified,
                   inbox_cfg, pushing, hooks, start_log, safety_policy,
                   decisions_executed>>

\* The cancelled listener task gets CancelledError where it is suspended:
\* in receive or in push "except asyncio.CancelledError: break" ends the
\* loop, in the sleep of the back-off the exception ends the task; the
\* message of a blocked push is lost
ListenerCancelled(a) ==
    /\ "listener" \in cancelled[a]
    /\ listen_pc[a] \in {"receive", "push", "backoff"}
    /\ listen_pc' = [listen_pc EXCEPT ![a] = "done"]
    /\ pushing' = [pushing EXCEPT ![a] = <<>>]
    /\ call' = Ret("listener", a, None, "cancelled", <<listen_pc[a]>>)
    /\ UNCHANGED <<taskVars, concVars, poolVars, rtVars, netVars>>
    /\ UNCHANGED <<rt_inbox, wake, messages_received, decided, descriptors,
                   discovery_store, stop_pc, stop_log, execVars, sched_pc, notified,
                   inbox_cfg, hooks, start_log, cancelled, safety_policy,
                   decisions_executed>>

\* "while self.running" of the main loop on a stopped runtime
LoopExit(a) ==
    /\ rt_pc[a] = "wait"
    /\ sched_pc[a] = "idle"
    /\ "loop" \notin cancelled[a]
    /\ ~running[a]
    /\ rt_pc' = [rt_pc EXCEPT ![a] = "done"]
    /\ call' = Ret("pass", a, None, "exit", <<>>)
    /\ UNCHANGED <<running, rt_decisions, claim_log>>
    /\ UNCHANGED <<taskVars, concVars, poolVars, netVars, nodeVars>>

\* The cancelled main loop task gets CancelledError where it is suspended,
\* in wait_for_work or in an await of the batch; no handler of the loop or
\* of the executor catches it, and the task ends
LoopCancelled(a) ==
    /\ "loop" \in cancelled[a]
    /\ rt_pc[a] \in {"wait", "batch", "execute"}
    /\ rt_pc' = [rt_pc EXCEPT ![a] = "done"]
    /\ sched_pc' = [sched_pc EXCEPT ![a] = "idle"]
    /\ call' = Ret("loop", a, None, "cancelled", <<rt_pc[a]>>)
    /\ UNCHANGED <<running, rt_decisions, claim_log>>
    /\ UNCHANGED <<taskVars, concVars, poolVars, netVars>>
    /\ UNCHANGED <<listen_pc, rt_inbox, wake, messages_received, decided, descriptors,
                   discovery_store, stop_pc, stop_log, execVars, notified, inbox_cfg,
                   pushing, hooks, start_log, cancelled, safety_policy,
                   decisions_executed>>

\* stop() up to its first await: running, scheduler.notify(), and the
\* request to cancel the listener task
StopCall(a) ==
    /\ stop_pc[a] = "idle"
    /\ running' = [running EXCEPT ![a] = FALSE]
    /\ wake' = [wake EXCEPT ![a] = TRUE]
    /\ notified' = [notified EXCEPT ![a] = TRUE]
    /\ cancelled' = [cancelled EXCEPT ![a] =
          IF listen_pc[a] # "none" THEN @ \cup {"listener"} ELSE @]
    /\ stop_log' = [stop_log EXCEPT ![a] =
          <<"running_false", "notify">>
          \o (IF listen_pc[a] # "none" THEN <<"cancel_listener">> ELSE <<>>)]
    /\ stop_pc' = [stop_pc EXCEPT ![a] = "await_listener"]
    /\ call' = Ret("stop", a, None, "called", <<listen_pc[a], rt_pc[a]>>)
    /\ UNCHANGED <<rt_pc, rt_decisions, claim_log>>
    /\ UNCHANGED <<taskVars, concVars, poolVars, netVars>>
    /\ UNCHANGED <<listen_pc, rt_inbox, messages_received, decided, descriptors,
                   discovery_store, execVars, sched_pc, inbox_cfg, pushing, hooks,
                   start_log, safety_policy, decisions_executed>>

\* The listener task has finished: stop() goes on to the request to cancel
\* the main loop's task, and awaits it
StopAfterListener(a) ==
    /\ stop_pc[a] = "await_listener"
    /\ listen_pc[a] \in {"none", "done"}
    /\ cancelled' = [cancelled EXCEPT ![a] =
          IF rt_pc[a] # "stopped" THEN @ \cup {"loop"} ELSE @]
    /\ stop_log' = [stop_log EXCEPT ![a] =
          @ \o (IF listen_pc[a] # "none" THEN <<"listener_done">> ELSE <<>>)
            \o (IF rt_pc[a] # "stopped" THEN <<"cancel_loop">> ELSE <<>>)]
    /\ stop_pc' = [stop_pc EXCEPT ![a] = "await_loop"]
    /\ call' = Ret("stop", a, None, "listener finished", <<>>)
    /\ UNCHANGED <<taskVars, concVars, poolVars, rtVars, netVars>>
    /\ UNCHANGED <<listen_pc, rt_inbox, wake, messages_received, decided, descriptors,
                   discovery_store, execVars, sched_pc, notified, inbox_cfg, pushing,
                   hooks, start_log, safety_policy, decisions_executed>>

\* The main loop's task has finished: the rest of stop()
StopAfterLoop(a) ==
    /\ rt_pc[a] \in {"stopped", "done", "dead"}
    /\ StopLoop(a)

(***************************************************************************)
(* Initial states and specifications                                       *)
(***************************************************************************)
InitTasks ==
    /\ tasks = EmptyDict
    /\ pending_task_ids = {}
    /\ store = EmptyDict
    /\ now = 0
    /\ call = Ret("init", None, None, "none", <<>>)

InitConc ==
    /\ claiming = [a \in Agents |-> None]
    /\ winners = [t \in TaskIds |-> {}]

InitPools ==
    /\ pools = EmptyDict
    /\ pool_store = EmptyDict
    /\ scores = [a \in Agents |-> TrustDefault]

InitRuntime ==
    /\ running = [a \in Agents |-> FALSE]
    /\ rt_pc = [a \in Agents |-> "stopped"]
    /\ rt_decisions = [a \in Agents |-> <<>>]
    /\ claim_log = [t \in TaskIds |-> [won |-> 0, lost |-> {}]]

InitLocal ==
    /\ started = [p \in Peers |-> FALSE]
    /\ queue = [p \in Peers |-> <<>>]
    /\ queues = {}
    /\ topic_subscriptions = EmptyDict

InitRemote ==
    /\ tcp_server = [a \in Agents |-> FALSE]
    /\ tcp_inbox = [a \in Agents |-> <<>>]
    /\ ws = [a \in Agents |-> FALSE]

InitConns ==
    /\ tcp_pool = [k \in TcpKeys |-> NoConn]
    /\ tcp_conns = <<>>
    /\ tcp_send = [s \in Senders |-> IdleSend(0)]

InitKv ==
    /\ kv_data = [key \in StoreKeys |-> None]
    /\ pia_pc = [th \in StoreCallers |-> IdleCaller]
    /\ pia_true = [key \in StoreKeys |-> <<>>]

InitLate == expired = [t \in TaskIds |-> {}]

\* NegotiationProtocol(): no session
InitNeg == sessions = << >>

InitNode ==
    /\ listen_pc = [a \in Agents |-> "none"]
    /\ rt_inbox = [a \in Agents |-> <<>>]
    /\ wake = [a \in Agents |-> FALSE]
    /\ messages_received = [a \in Agents |-> 0]
    /\ decided = [a \in Agents |-> <<>>]
    /\ descriptors = {}
    /\ tick_no = [a \in Agents |-> 0]
    /\ sent = [a \in Agents |-> <<>>]
    /\ effects = [a \in Agents |-> <<>>]
    /\ tool_threads = [a \in Agents |-> {}]
    /\ sched_pc = [a \in Agents |-> "idle"]
    /\ notified = [a \in Agents |-> FALSE]
    /\ pushing = [a \in Agents |-> <<>>]
    /\ hooks = [a \in Agents |-> <<>>]
    /\ start_log = [a \in Agents |-> <<>>]
    /\ cancelled = [a \in Agents |-> {}]
    /\ decisions_executed = [a \in Agents |-> 0]
    /\ discovery_store = {}
    /\ stop_pc = [a \in Agents |-> "idle"]
    /\ stop_log = [a \in Agents |-> <<>>]

\* Inbox(): asyncio.Queue(maxsize=0) has no bound
UnboundedInbox == [maxsize |-> 0, drop_when_full |-> FALSE]

\* The runtimes and executors built with the default arguments
InitConfig ==
    /\ inbox_cfg = [a \in Agents |-> UnboundedInbox]
    /\ safety_policy = [a \in Agents |-> NoPolicy]

\* Everything but the arguments of the constructors
InitState ==
    /\ InitTasks /\ InitConc /\ InitPools /\ InitRuntime
    /\ InitLocal /\ InitRemote /\ InitNode
    /\ InitConns /\ InitKv /\ InitLate /\ InitNeg

Init == InitState /\ InitConfig

\* The TaskManager called by one caller at a time
Next ==
    \/ \E t \in TaskIds, ttl \in TTLs :
          Submit(t, ttl, None) /\ UNCHANGED <<concVars, poolVars, rtVars, netVars, nodeVars>>
    \/ \E a \in Agents, t \in TaskIds :
          Claim(a, t) /\ UNCHANGED <<concVars, poolVars, rtVars, netVars, nodeVars>>
    \/ \E t \in TaskIds :
          CancelTask(t) /\ UNCHANGED <<concVars, poolVars, rtVars, netVars, nodeVars>>
    \/ \E t \in TaskIds, r \in FailReasons, a \in Agents \cup {None} :
          FailTask(t, r, a) /\ UNCHANGED <<concVars, poolVars, rtVars, netVars, nodeVars>>
    \/ \E a \in Agents, t \in TaskIds, r \in ReportResults :
          Report(a, t, r) /\ UNCHANGED <<concVars, poolVars, rtVars, netVars, nodeVars>>
    \/ \E t \in TaskIds :
          GetTask(t) /\ UNCHANGED <<concVars, poolVars, rtVars, netVars, nodeVars>>
    \/ \E n \in 0..MaxTime :
          ReleaseExpiredClaims(n) /\ UNCHANGED <<concVars, poolVars, rtVars, netVars, nodeVars>>
    \/ Restart /\ UNCHANGED <<concVars, poolVars, rtVars, netVars, nodeVars>>
    \/ AdvanceClock /\ UNCHANGED <<concVars, poolVars, rtVars, netVars, nodeVars>>

Spec == Init /\ [][Next]_vars

\* One manager whose tasks are submitted with or without a lease, or with a
\* claim_ttl_sec that is no number, claimed, released and cancelled
NextLease ==
    \/ \E t \in TaskIds, ttl \in LeaseTTLs :
          Submit(t, ttl, None) /\ UNCHANGED <<concVars, poolVars, rtVars, netVars, nodeVars>>
    \/ \E a \in Agents, t \in TaskIds :
          Claim(a, t) /\ UNCHANGED <<concVars, poolVars, rtVars, netVars, nodeVars>>
    \/ \E t \in TaskIds :
          CancelTask(t) /\ UNCHANGED <<concVars, poolVars, rtVars, netVars, nodeVars>>
    \/ \E n \in 0..MaxTime :
          ReleaseExpiredClaims(n) /\ UNCHANGED <<concVars, poolVars, rtVars, netVars, nodeVars>>
    \/ Restart /\ UNCHANGED <<concVars, poolVars, rtVars, netVars, nodeVars>>
    \/ AdvanceClock /\ UNCHANGED <<concVars, poolVars, rtVars, netVars, nodeVars>>

SpecLease == Init /\ [][NextLease]_vars

\* The filters list_pending_tasks_for_agent is called with
ListPoolArgs == {NoFilter, {}, {"p1"}, {"p1", "p2"}}
ListCapArgs == {NoFilter, {}, {"c1"}}
TaskCaps == {{}, {"c1"}, {"c1", "c2"}}

\* Tasks with and without a pool and required capabilities, the pool p1
\* that agents join and leave, listings with every filter, and the task
\* polling of the runtimes of the agents
NextList ==
    \/ \E t \in TaskIds, pool \in PoolIds \cup {None}, caps \in TaskCaps :
          /\ SubmitScoped(t, pool, caps)
          /\ UNCHANGED <<concVars, poolVars, rtVars, netVars, nodeVars>>
    \/ \E a \in Agents, t \in TaskIds :
          Claim(a, t) /\ UNCHANGED <<concVars, poolVars, rtVars, netVars, nodeVars>>
    \/ /\ "p1" \notin DOMAIN pools
       /\ CreatePool("p1", OpenPool)
       /\ UNCHANGED <<taskVars, concVars, rtVars, netVars, nodeVars>>
    \/ \E a \in Agents :
          JoinPool(a, "p1") /\ UNCHANGED <<taskVars, concVars, rtVars, netVars, nodeVars>>
    \/ \E a \in Agents :
          LeavePool(a, "p1") /\ UNCHANGED <<taskVars, concVars, rtVars, netVars, nodeVars>>
    \/ \E pool_ids \in ListPoolArgs, capabilities \in ListCapArgs :
          /\ ListForAgent("a1", pool_ids, capabilities)
          /\ UNCHANGED <<concVars, poolVars, rtVars, netVars, nodeVars>>
    \/ \E a \in Agents :
          PollTasks(a) /\ UNCHANGED <<concVars, rtVars, netVars, nodeVars>>

SpecList == Init /\ [][NextList]_vars

\* The inboxes a runtime is built with
BoundedInbox(drop_when_full) == [maxsize |-> 2, drop_when_full |-> drop_when_full]

InboxConfigs == {UnboundedInbox, BoundedInbox(TRUE), BoundedInbox(FALSE)}

\* The batch sizes the application polls with
PollSizes == {0, 1, 3}

\* The runtime of a1, built with both managers and any of these inboxes:
\* its listener and its main loop step by step; the application polls a
\* bounded inbox as well
InitInbox ==
    /\ InitState
    /\ \E cfg \in InboxConfigs :
          inbox_cfg = [a \in Agents |-> IF a = "a1" THEN cfg ELSE UnboundedInbox]
    /\ safety_policy = [a \in Agents |-> NoPolicy]

NextInbox ==
    \/ Start("a1")
    \/ ListenPush("a1")
    \/ ListenPushResumes("a1")
    \/ \E batch_size \in PollSizes :
          inbox_cfg["a1"].maxsize > 0 /\ InboxPoll("a1", batch_size)
    \/ LoopWait("a1")
    \/ LoopWaitExpires("a1")
    \/ LoopPoll("a1")
    \/ LoopExecute("a1")

SpecInbox == InitInbox /\ [][NextInbox]_vars

\* The runtime of a1, built with both managers and a bounded inbox: its
\* listener and its main loop step by step, with a task submitted and
\* cancelled
InitLoop ==
    /\ InitState
    /\ inbox_cfg = [a \in Agents |-> BoundedInbox(FALSE)]
    /\ safety_policy = [a \in Agents |-> NoPolicy]

LoopTaskFrame ==
    UNCHANGED <<concVars, poolVars, rtVars, netVars, nodeVars>>

NextLoop ==
    \/ Start("a1")
    \/ ListenPush("a1")
    \/ ListenPushResumes("a1")
    \/ LoopWait("a1")
    \/ LoopWaitExpires("a1")
    \/ LoopPoll("a1")
    \/ LoopExecute("a1")
    \/ Submit("t1", NoNum, None) /\ LoopTaskFrame
    \/ CancelTask("t1") /\ LoopTaskFrame

SpecLoop == InitLoop /\ [][NextLoop]_vars

\* The safety policies an executor is built with
SafetyPolicies ==
    {SafetyPolicy(ResourceLimits(1, 1), ActionPolicy({"SubmitTask", "ClaimTask"})),
     SafetyPolicy(<<>>, ActionPolicy({"SendMessage", "ClaimTask"})),
     SafetyPolicy(ResourceLimits(1, 1), ActionPolicy({}))}

\* The requests of the tasks the application submits
TaskRequests == {<<2, 0>>, <<0, 2>>, <<1, 1>>}

\* The runtime of a1, whose executor has one of these policies and whose
\* agent returns batches of messages, submissions and claims; tasks are
\* submitted by the application as well, and the task manager is rebuilt
\* on its store
InitSafety ==
    /\ InitState
    /\ inbox_cfg = [a \in Agents |-> UnboundedInbox]
    /\ \E policy \in SafetyPolicies :
          safety_policy = [a \in Agents |-> IF a = "a1" THEN policy ELSE NoPolicy]

SafetyFrame ==
    UNCHANGED <<concVars, poolVars, rtVars, netVars, nodeVars>>

NextSafety ==
    \/ Start("a1")
    \/ RunTick("a1")
    \/ LocalStart("a3") /\ UNCHANGED <<taskVars, concVars, poolVars, rtVars, remoteVars, nodeVars>>
    \/ LocalReceive("a3") /\ UNCHANGED <<taskVars, concVars, poolVars, rtVars, remoteVars, nodeVars>>
    \/ \E t \in TaskIds : \E request \in TaskRequests :
          SubmitConstrained(t, request[1], request[2]) /\ SafetyFrame
    \/ Restart /\ SafetyFrame

SpecSafety == InitSafety /\ [][NextSafety]_vars

\* That runtime started and stopped as well, with a transport that may
\* fail: the tasks react to their cancellation and stop() goes on
NextLife ==
    \/ Start("a1")
    \/ StartAgain("a1")
    \/ ListenPush("a1")
    \/ ListenPushResumes("a1")
    \/ ListenFails("a1")
    \/ ListenBackoffEnds("a1")
    \/ ListenerCancelled("a1")
    \/ LoopWait("a1")
    \/ LoopWaitExpires("a1")
    \/ LoopPoll("a1")
    \/ LoopExecute("a1")
    \/ LoopExit("a1")
    \/ LoopCancelled("a1")
    \/ StopCall("a1")
    \/ StopAfterListener("a1")
    \/ StopAfterLoop("a1")

\* A cancelled task is resumed, and a call of stop() goes on
FairLife ==
    /\ WF_vars(ListenerCancelled("a1")) /\ WF_vars(LoopCancelled("a1"))
    /\ WF_vars(StopAfterListener("a1")) /\ WF_vars(StopAfterLoop("a1"))

SpecLife == InitLoop /\ [][NextLife]_vars /\ FairLife

\* The schedulers of two runtimes, notified and waited on in any order
SchedFrame ==
    UNCHANGED <<taskVars, concVars, poolVars, rtVars, netVars, listen_pc, rt_inbox,
                messages_received, decided, descriptors, discovery_store, stop_pc,
                stop_log, execVars, inbox_cfg, pushing, hooks, start_log, cancelled,
                safety_policy, decisions_executed>>

NextSched ==
    \/ \E a \in Agents : Notify(a) /\ SchedFrame
    \/ \E a \in Agents : WaitBegin(a) /\ SchedFrame
    \/ \E a \in Agents : WaitExpires(a) /\ SchedFrame
    \/ \E a \in Agents : WaitWoken(a) /\ SchedFrame
    \/ \E a \in Agents : WaitTimesOut(a) /\ SchedFrame

SpecSched == Init /\ [][NextSched]_vars

\* The TaskManager with claim called from concurrent threads
NextConc ==
    \/ \E t \in TaskIds, ttl \in TTLs :
          Submit(t, ttl, None) /\ UNCHANGED <<concVars, poolVars, rtVars, netVars, nodeVars>>
    \/ \E a \in Agents, t \in TaskIds :
          ClaimCheck(a, t) /\ UNCHANGED <<poolVars, rtVars, netVars, nodeVars>>
    \/ \E a \in Agents :
          ClaimAssign(a) /\ UNCHANGED <<poolVars, rtVars, netVars, nodeVars>>
    \/ \E n \in 0..MaxTime :
          ReleaseConc(n) /\ UNCHANGED <<poolVars, rtVars, netVars, nodeVars>>
    \/ AdvanceClock /\ UNCHANGED <<concVars, poolVars, rtVars, netVars, nodeVars>>

SpecConc == Init /\ [][NextConc]_vars

\* The PoolManager and the trust model
NextPools ==
    \/ \E p \in PoolIds, spec \in PoolSpecs :
          CreatePool(p, spec) /\ UNCHANGED <<taskVars, concVars, rtVars, netVars, nodeVars>>
    \/ \E a \in Agents, p \in PoolIds :
          JoinPool(a, p) /\ UNCHANGED <<taskVars, concVars, rtVars, netVars, nodeVars>>
    \/ \E a \in Agents, p \in PoolIds :
          LeavePool(a, p) /\ UNCHANGED <<taskVars, concVars, rtVars, netVars, nodeVars>>
    \/ \E p \in PoolIds :
          GetPool(p) /\ UNCHANGED <<taskVars, concVars, rtVars, netVars, nodeVars>>
    \/ \E a \in Agents, d \in TrustDeltas :
          UpdateTrust(a, d) /\ UNCHANGED <<taskVars, concVars, rtVars, netVars, nodeVars>>
    \/ RestartPools /\ UNCHANGED <<taskVars, concVars, rtVars, netVars, nodeVars>>

SpecPools == Init /\ [][NextPools]_vars

\* The pool of the shared scenario
RunPools == {"p1"}

\* Two worker runtimes over one TaskManager and one PoolManager: a pool is
\* created once, the agents join it, tasks are submitted with and without
\* pool_id, and the runtimes run.
NextRun ==
    \/ \E a \in Agents :
          Start(a)
    \/ \E p \in RunPools :
          /\ p \notin DOMAIN pools
          /\ CreatePool(p, OpenPool)
          /\ UNCHANGED <<taskVars, concVars, rtVars, netVars, nodeVars>>
    \/ \E a \in Agents, p \in RunPools :
          JoinPool(a, p) /\ UNCHANGED <<taskVars, concVars, rtVars, netVars, nodeVars>>
    \/ \E t \in TaskIds, pool \in RunPools \cup {None} :
          Submit(t, NoNum, pool) /\ UNCHANGED <<concVars, poolVars, rtVars, netVars, nodeVars>>
    \/ \E a \in Agents :
          Wake(a)
    \/ \E a \in Agents :
          Execute(a)

\* Every runtime's main loop task keeps being scheduled: wait_for_work
\* times out after one second, and the event loop runs every ready task.
FairRun ==
    \A a \in Agents : WF_vars(Wake(a)) /\ WF_vars(Execute(a))

SpecRun == Init /\ [][NextRun]_vars /\ FairRun

\* The messages sent in the routing scenario: unsigned, from the sending
\* transport's agent, to a recipient or to topics or to nobody in particular
RoutedMessages(a) ==
    {Message(a, r, ts, <<>>) :
        r \in Peers \cup {None}, ts \in {{}, {"x", "y"}}}

\* The in-process transports of three agents and their shared registry; the
\* third agent only receives
NextLocal ==
    \/ \E a \in Peers :
          LocalStart(a) /\ UNCHANGED <<taskVars, concVars, poolVars, rtVars, remoteVars, nodeVars>>
    \/ \E a \in Peers :
          LocalStop(a) /\ UNCHANGED <<taskVars, concVars, poolVars, rtVars, remoteVars, nodeVars>>
    \/ \E p \in Peers, ns \in Namespaces :
          Subscribe(p, ns) /\ UNCHANGED <<taskVars, concVars, poolVars, rtVars, remoteVars, nodeVars>>
    \/ \E p \in Peers, ns \in Namespaces :
          Unsubscribe(p, ns) /\ UNCHANGED <<taskVars, concVars, poolVars, rtVars, remoteVars, nodeVars>>
    \/ \E a \in Agents : \E message \in RoutedMessages(a) :
          LocalSend(a, message) /\ UNCHANGED <<taskVars, concVars, poolVars, rtVars, remoteVars, nodeVars>>
    \/ \E a \in Peers :
          LocalReceive(a) /\ UNCHANGED <<taskVars, concVars, poolVars, rtVars, remoteVars, nodeVars>>

SpecLocal == Init /\ [][NextLocal]_vars

\* The three transports of two agents, started, stopped and used in any
\* order, with unsigned messages from one agent to an agent
NextTransports ==
    \/ \E a \in Agents :
          LocalStart(a) /\ UNCHANGED <<taskVars, concVars, poolVars, rtVars, remoteVars, nodeVars>>
    \/ \E a \in Agents :
          LocalStop(a) /\ UNCHANGED <<taskVars, concVars, poolVars, rtVars, remoteVars, nodeVars>>
    \/ \E a \in Agents, b \in Agents :
          /\ LocalSend(a, Message(a, b, {}, <<>>))
          /\ UNCHANGED <<taskVars, concVars, poolVars, rtVars, remoteVars, nodeVars>>
    \/ \E a \in Agents :
          LocalReceive(a) /\ UNCHANGED <<taskVars, concVars, poolVars, rtVars, remoteVars, nodeVars>>
    \/ \E a \in Agents :
          TcpStart(a) /\ UNCHANGED <<taskVars, concVars, poolVars, rtVars, localVars, nodeVars>>
    \/ \E a \in Agents :
          TcpStop(a) /\ UNCHANGED <<taskVars, concVars, poolVars, rtVars, localVars, nodeVars>>
    \/ \E a \in Agents, b \in Agents \cup {None} :
          /\ TcpSend(a, Message(a, b, {"transport.tcp"}, <<>>), b)
          /\ UNCHANGED <<taskVars, concVars, poolVars, rtVars, localVars, nodeVars>>
    \/ \E a \in Agents :
          TcpReceive(a) /\ UNCHANGED <<taskVars, concVars, poolVars, rtVars, localVars, nodeVars>>
    \/ \E a \in Agents :
          WsStart(a) /\ UNCHANGED <<taskVars, concVars, poolVars, rtVars, localVars, nodeVars>>
    \/ \E a \in Agents :
          WsStop(a) /\ UNCHANGED <<taskVars, concVars, poolVars, rtVars, localVars, nodeVars>>
    \/ \E a \in Agents, b \in Agents :
          /\ WsSend(a, Message(a, b, {}, <<>>))
          /\ UNCHANGED <<taskVars, concVars, poolVars, rtVars, localVars, nodeVars>>
    \/ \E a \in Agents :
          WsReceive(a) /\ UNCHANGED <<taskVars, concVars, poolVars, rtVars, localVars, nodeVars>>

SpecTransports == Init /\ [][NextTransports]_vars

\* One TcpTransport, the coroutines that send through it, its peers and
\* its stop()
NextTcp ==
    \/ \E s \in Senders, k \in TcpKeys \cup {None} :
          TcpSendCall(s, k) /\ UNCHANGED <<taskVars, concVars, poolVars, rtVars, localVars, nodeVars>>
    \/ \E s \in Senders :
          TcpOpenReturns(s) /\ UNCHANGED <<taskVars, concVars, poolVars, rtVars, localVars, nodeVars>>
    \/ \E s \in Senders :
          TcpOpenRaises(s) /\ UNCHANGED <<taskVars, concVars, poolVars, rtVars, localVars, nodeVars>>
    \/ \E s \in Senders :
          TcpLockAcquired(s) /\ UNCHANGED <<taskVars, concVars, poolVars, rtVars, localVars, nodeVars>>
    \/ \E s \in Senders :
          TcpDrainReturns(s) /\ UNCHANGED <<taskVars, concVars, poolVars, rtVars, localVars, nodeVars>>
    \/ \E s \in Senders :
          TcpDrainRaises(s) /\ UNCHANGED <<taskVars, concVars, poolVars, rtVars, localVars, nodeVars>>
    \/ \E c \in 1..MaxConns :
          TcpPeerCloses(c) /\ UNCHANGED <<taskVars, concVars, poolVars, rtVars, localVars, nodeVars>>
    \/ TcpStopPool("a1") /\ UNCHANGED <<taskVars, concVars, poolVars, rtVars, localVars, nodeVars>>

SpecTcp == Init /\ [][NextTcp]_vars

\* A running runtime with the default, unbounded inbox: messages arrive at
\* any pace, more than a batch of them before a pass as well
NextDeliver ==
    \/ Start("a1")
    \/ ListenPush("a1")
    \/ LoopWait("a1")
    \/ LoopWaitExpires("a1")
    \/ LoopPoll("a1")
    \/ LoopExecute("a1")

\* The event loop runs the main loop's task whenever it can go on, and the
\* timer of wait_for fires
FairDeliver ==
    /\ WF_vars(LoopWait("a1")) /\ WF_vars(LoopWaitExpires("a1"))
    /\ WF_vars(LoopPoll("a1")) /\ WF_vars(LoopExecute("a1"))

SpecDeliver == Init /\ [][NextDeliver]_vars /\ FairDeliver

\* What the steps of the TaskManager leave alone when the claimers whose
\* lease ran out are recorded
LateFrame ==
    UNCHANGED <<concVars, poolVars, rtVars, localVars, nodeVars,
                tcp_server, tcp_inbox, ws, connVars, kvVars, negVars>>

\* The TaskManager with leases: claimers report in time, or late, after
\* release_expired_claims, called with the time of the clock, took their
\* claim back and another agent claimed
NextLate ==
    \/ \E t \in TaskIds, ttl \in TTLs :
          Submit(t, ttl, None) /\ LateFrame /\ UNCHANGED expired
    \/ \E a \in Agents, t \in TaskIds :
          /\ Claim(a, t) /\ LateFrame
          /\ expired' = [expired EXCEPT ![t] = IF call'.ret = "true" THEN @ \ {a} ELSE @]
    \/ \E a \in Agents, t \in TaskIds, r \in ReportResults :
          Report(a, t, r) /\ LateFrame /\ UNCHANGED expired
    \/ \E t \in TaskIds, r \in FailReasons, a \in Agents :
          FailTask(t, r, a) /\ LateFrame /\ UNCHANGED expired
    \/ /\ ReleaseExpiredClaims(now) /\ LateFrame
       /\ expired' = [t \in TaskIds |->
                         IF \E i \in 1..Len(call'.out) : call'.out[i] = t
                         THEN expired[t] \cup {IF t \in DOMAIN tasks
                                               THEN tasks[t].assigned_to
                                               ELSE store[t].assigned_to}
                         ELSE expired[t]]
    \/ Restart /\ LateFrame /\ UNCHANGED expired
    \/ AdvanceClock /\ LateFrame /\ UNCHANGED expired

SpecLate == Init /\ [][NextLate]_vars

\* sign and verify applied to the messages and the keys of the bounded sets
NextSign ==
    \/ \E message \in SignInputs, identity \in Peers :
          SignCall(message, identity)
    \/ \E key \in PublicKeys :
          /\ call.op = "sign" /\ call.ret = "message"
          /\ \E received \in Afterwards(call.out[2]) :
                VerifyCall(received, key)

SpecSign == Init /\ [][NextSign]_vars

\* What the calls of the NegotiationProtocol leave alone
NegFrame ==
    UNCHANGED <<taskVars, concVars, poolVars, rtVars, localVars, nodeVars,
                tcp_server, tcp_inbox, ws, connVars, kvVars, lateVars>>

\* Agents that open sessions and propose, accept and reject in them, the
\* invited ones and an outsider alike
NextNeg ==
    \/ \E sid \in SessionIds, initiator \in Initiators, ps \in Invited, c \in Contents :
          CreateSession(sid, initiator, ps, c) /\ NegFrame
    \/ \E sid \in SessionIds, a \in Negotiators, c \in Contents :
          Propose(sid, a, c) /\ NegFrame
    \/ \E sid \in SessionIds, a \in Negotiators : Accept(sid, a) /\ NegFrame
    \/ \E sid \in SessionIds, a \in Negotiators : Reject(sid, a) /\ NegFrame

SpecNeg == Init /\ [][NextNeg]_vars

\* Threads that call put_if_absent of one store, each with its own value
NextStore ==
    \/ \E th \in StoreCallers, key \in StoreKeys :
          /\ PutIfAbsentGet(th, key, th)
          /\ UNCHANGED <<taskVars, concVars, poolVars, rtVars, localVars, nodeVars,
                         tcp_server, tcp_inbox, ws, connVars, lateVars, negVars>>
    \/ \E th \in StoreCallers :
          /\ PutIfAbsentPut(th)
          /\ UNCHANGED <<taskVars, concVars, poolVars, rtVars, localVars, nodeVars,
                         tcp_server, tcp_inbox, ws, connVars, lateVars, negVars>>

SpecStore == Init /\ [][NextStore]_vars

\* The messages put on the queues of the two runtimes: from a1, signed by
\* a1; from a1, unsigned; and for a2 also from a1, signed with a3's key, and
\* from the unknown a3, signed by a3
NodeMessages ==
    {Sign(Message("a1", b, {}, <<>>), "a1") : b \in Agents}
    \cup {Message("a1", b, {}, <<>>) : b \in Agents}
    \cup {[Sign(Message("a1", "a2", {}, <<>>), "a3") EXCEPT !.sender = "a1"],
          Sign(Message("a3", "a2", {}, <<>>), "a3")}

\* Two runtimes on in-process transports, without managers, started and
\* stopped in any order, a2's with an identity registry
NextNode ==
    \/ \E a \in Agents : Start(a)
    \/ \E b \in Agents : \E message \in NodeMessages :
          /\ message.recipient = b
          /\ QueuePut(b, message)
          /\ UNCHANGED <<taskVars, concVars, poolVars, rtVars, remoteVars, nodeVars>>
    \/ \E a \in Agents : Listen(a)
    \/ \E a \in Agents : Tick(a)
    \/ \E a \in Agents : StopBegin(a)
    \/ \E a \in Agents : StopListener(a)
    \/ \E a \in Agents : StopLoop(a)

\* The listener and main loop tasks of a running runtime keep being
\* scheduled, and a call of stop() goes on
FairNode ==
    \A a \in Agents :
        /\ WF_vars(Listen(a)) /\ WF_vars(Tick(a))
        /\ WF_vars(StopListener(a)) /\ WF_vars(StopLoop(a))

SpecNode == Init /\ [][NextNode]_vars /\ FairNode

\* Two runtimes on in-process transports, a1 with managers and a2 without,
\* whose agents return decisions; the peer a3 starts its transport and
\* takes its messages, and the application may stop a runtime's transport
NextExec ==
    \/ \E a \in Agents : Start(a)
    \/ \E a \in Agents : RunTick(a)
    \/ \E a \in Agents : ToolThreadFinishes(a)
    \/ LocalStart("a3") /\ UNCHANGED <<taskVars, concVars, poolVars, rtVars, remoteVars, nodeVars>>
    \/ LocalReceive("a3") /\ UNCHANGED <<taskVars, concVars, poolVars, rtVars, remoteVars, nodeVars>>
    \/ \E a \in Agents :
          LocalStop(a) /\ UNCHANGED <<taskVars, concVars, poolVars, rtVars, remoteVars, nodeVars>>

SpecExec == Init /\ [][NextExec]_vars

(***************************************************************************)
(* Properties of the TaskManager                                           *)
(***************************************************************************)
\* The manager knows task t: it is cached or stored
Known(t) == t \in DOMAIN tasks \/ t \in DOMAIN store

\* The task the manager's operations work on: the cached one, else the stored one
Cur(t) == IF t \in DOMAIN tasks THEN tasks[t] ELSE store[t]

\* The fields a caller sees of a task
Visible(task) ==
    [state |-> task.state, assigned_to |-> task.assigned_to, result |-> task.result]

\* C1: claim(a, id) returns true iff the task exists (cached or stored) and is
\* PENDING; on true the task is ASSIGNED to a (in memory and in the store) and
\* is no longer listed as pending; on false the task's state, assigned_to and
\* result are unchanged.
C1_ClaimIffPending ==
    [][\A a \in Agents, t \in TaskIds :
        (call'.op = "claim" /\ call'.agent = a /\ call'.task = t) =>
        /\ (call'.ret = "true") <=> (Known(t) /\ Cur(t).state = "PENDING")
        /\ call'.ret = "true" =>
              /\ tasks'[t].state = "ASSIGNED"
              /\ tasks'[t].assigned_to = a
              /\ store'[t].state = "ASSIGNED"
              /\ store'[t].assigned_to = a
              /\ t \notin ListPendingTasks'
        /\ call'.ret # "true" =>
              /\ Known(t)' = Known(t)
              /\ Known(t) => Visible(Cur(t)') = Visible(Cur(t))
              /\ store' = store
    ]_vars

C1_Witness ==
    /\ call.op = "claim"
    /\ call.ret = "true"
    /\ tasks[call.task].state = "ASSIGNED"
    /\ tasks[call.task].assigned_to = call.agent
    /\ \E u \in DOMAIN tasks : tasks[u].state = "COMPLETED"

\* C3: once a task is COMPLETED, FAILED or CANCELLED, no later call changes
\* its state or its result.
C3_TerminalIsFinal ==
    [][\A t \in TaskIds :
        (Known(t) /\ Cur(t).state \in Terminal) =>
            /\ Known(t)'
            /\ Cur(t)'.state = Cur(t).state
            /\ Cur(t)'.result = Cur(t).result
    ]_vars

\* C4: list_pending_tasks never contains a COMPLETED, FAILED or CANCELLED task.
C4_NoTerminalPending ==
    \A t \in ListPendingTasks : tasks[t].state \notin Terminal

\* C5: every PENDING task the manager holds is returned by list_pending_tasks.
C5_PendingIsListed ==
    \A t \in DOMAIN tasks : tasks[t].state = "PENDING" => t \in ListPendingTasks

\* C6: report, and fail_task with agent_id given, by an agent that is not the
\* task's assigned_to raise not-authorized and leave the task's state, result
\* and assigned_to and the pending index unchanged; report on an unknown id
\* returns silently and creates no task.
C6_NotAuthorized ==
    [][\A a \in Agents, t \in TaskIds :
        (call'.op \in {"report", "fail_task"} /\ call'.agent = a /\ call'.task = t) =>
        /\ (Known(t) /\ Cur(t).assigned_to # a) =>
              /\ call'.ret = "raise"
              /\ Visible(Cur(t)') = Visible(Cur(t))
              /\ ListPendingTasks' = ListPendingTasks
              /\ pending_task_ids' = pending_task_ids
              /\ store' = store
        /\ ~Known(t) =>
              /\ call'.ret = "none"
              /\ tasks' = tasks
              /\ store' = store
              /\ pending_task_ids' = pending_task_ids
    ]_vars

C6_Witness ==
    /\ call.op = "report"
    /\ call.ret = "raise"
    /\ call.task \in DOMAIN tasks
    /\ tasks[call.task].state = "ASSIGNED"
    /\ tasks[call.task].assigned_to \in Agents \ {call.agent}

\* C7: release_expired_claims(now) with now >= claimed_at + claim_ttl_sec
\* returns the id of an ASSIGNED task exactly once, makes it PENDING with
\* assigned_to and claimed_at cleared (in memory and in the store), and the
\* task is listed as pending and claimable; cached or only stored.
C7_ExpiredIsReleased ==
    [][\A n \in 0..MaxTime :
        (call'.op = "release_expired_claims" /\ ReleaseExpiredClaims(n)) =>
        \A t \in TaskIds :
            ( /\ Known(t)
              /\ Cur(t).state = "ASSIGNED"
              /\ Cur(t).ttl # NoNum
              /\ Cur(t).claimed_at # NoNum
              /\ n >= Cur(t).claimed_at + Cur(t).ttl ) =>
            /\ Count(t, call'.out) = 1
            /\ t \in DOMAIN tasks'
            /\ tasks'[t].state = "PENDING"
            /\ tasks'[t].assigned_to = None
            /\ tasks'[t].claimed_at = NoNum
            /\ store'[t] = tasks'[t]
            /\ t \in ListPendingTasks'
    ]_vars

C7_Witness ==
    /\ call.op = "release_expired_claims"
    /\ Len(call.out) = 2
    /\ \A t \in TaskIds : t \in ListPendingTasks /\ tasks[t].state = "PENDING"

\* C8: the snapshot stored under task:<id> has the state, assigned_to and
\* result of the cached task, and get_task on a manager that does not cache
\* the task returns the stored task and lists it as pending when PENDING.
C8_SnapshotIsCurrent ==
    /\ [](\A t \in DOMAIN tasks :
             t \in DOMAIN store /\ Visible(store[t]) = Visible(tasks[t]))
    /\ [][\A t \in TaskIds :
            (call'.op = "get_task" /\ call'.task = t
                /\ t \notin DOMAIN tasks /\ t \in DOMAIN store) =>
                /\ call'.ret = t
                /\ tasks'[t] = store[t]
                /\ store[t].state = "PENDING" => t \in ListPendingTasks'
       ]_vars

C8_Witness ==
    /\ call.op = "get_task"
    /\ call.task \in DOMAIN tasks
    /\ tasks[call.task].state = "PENDING"
    /\ call.task \in ListPendingTasks
    /\ \E u \in DOMAIN store : u \notin DOMAIN tasks /\ store[u].state = "COMPLETED"

(***************************************************************************)
(* Properties of claim() under concurrent callers                          *)
(***************************************************************************)
\* C2: for any interleaving of concurrent claim calls on one TaskManager, at
\* most one call on a task returns true between two releases of the task.
C2_AtMostOneClaimWins ==
    \A t \in TaskIds : Cardinality(winners[t]) <= 1

(***************************************************************************)
(* Properties of the PoolManager                                           *)
(***************************************************************************)
\* The manager knows pool p: it is cached or stored
KnownPool(p) == p \in DOMAIN pools \/ p \in DOMAIN pool_store

\* The pool the manager's operations work on
CurPool(p) == IF p \in DOMAIN pools THEN pools[p] ELSE pool_store[p]

\* C10: join_pool(a, P) returns true and adds a to P.agents iff P exists, P's
\* admission policy (when present) admits a and (when P has a trust model)
\* get_trust(a) >= trust_threshold; the policy is asked before the trust
\* model; when join_pool returns false, P.agents and the stored pool are
\* unchanged; no agent outside a whitelist is ever a member.
C10_JoinIffAdmitted ==
    /\ [][\A a \in Agents, p \in PoolIds :
            (call'.op = "join_pool" /\ call'.agent = a /\ call'.task = p) =>
            /\ (call'.ret = "true") <=>
                  /\ KnownPool(p)
                  /\ CurPool(p).policy # "none" =>
                        CanAdmit(CurPool(p), a,
                                 [pool_id |-> p, existing_agents |-> CurPool(p).agents])
                  /\ CurPool(p).trust_model => GetTrust(a) >= CurPool(p).trust_threshold
            /\ call'.ret = "true" =>
                  /\ pools'[p].agents = CurPool(p).agents \cup {a}
                  /\ pool_store'[p] = pools'[p]
            /\ call'.ret # "true" =>
                  /\ KnownPool(p)' = KnownPool(p)
                  /\ KnownPool(p) => CurPool(p)'.agents = CurPool(p).agents
                  /\ pool_store' = pool_store
            /\ call'.out \in {<<>>, <<"can_admit">>, <<"get_trust">>,
                              <<"can_admit", "get_trust">>}
            /\ (KnownPool(p) /\ CurPool(p).policy # "none") =>
                  Len(call'.out) > 0 /\ call'.out[1] = "can_admit"
       ]_vars
    /\ [](\A p \in PoolIds :
            (KnownPool(p) /\ CurPool(p).policy = "whitelist") =>
                /\ CurPool(p).agents \subseteq CurPool(p).whitelist
                /\ p \in DOMAIN pool_store =>
                      pool_store[p].agents \subseteq pool_store[p].whitelist)

C10_Witness ==
    /\ call.op = "join_pool"
    /\ call.ret = "false"
    /\ call.out = <<"can_admit", "get_trust">>
    /\ \E p \in DOMAIN pools :
          /\ pools[p].policy = "whitelist"
          /\ pools[p].agents = pools[p].whitelist
          /\ pools[p].agents # {}

\* C11: leave_pool never raises; after leave_pool(a, P) on a known pool a is
\* not in P.agents, cached and stored; a leave by a non-member (a second
\* leave included) or of an unknown pool leaves every pool and the store as
\* they were; a leave changes no other pool; a join by a member leaves the
\* pool with the same single entry for it.
C11_LeaveRemoves ==
    [][\A a \in Agents, p \in PoolIds :
        /\ (call'.op = "leave_pool" /\ call'.agent = a /\ call'.task = p) =>
            /\ call'.ret = "none"
            /\ KnownPool(p) =>
                  /\ p \in DOMAIN pools'
                  /\ a \notin pools'[p].agents
                  /\ a \notin pool_store'[p].agents
            /\ (~KnownPool(p) \/ a \notin CurPool(p).agents) =>
                  /\ pool_store' = pool_store
                  /\ KnownPool(p)' = KnownPool(p)
                  /\ KnownPool(p) => CurPool(p)' = CurPool(p)
            /\ \A q \in PoolIds \ {p} :
                  /\ KnownPool(q)' = KnownPool(q)
                  /\ KnownPool(q) => CurPool(q)' = CurPool(q)
        /\ (/\ call'.op = "join_pool" /\ call'.agent = a /\ call'.task = p
            /\ call'.ret = "true"
            /\ KnownPool(p) /\ a \in CurPool(p).agents) =>
            /\ CurPool(p)' = CurPool(p)
            /\ pool_store'[p] = pool_store[p]
    ]_vars

\* A member has just left a pool that keeps its other member
C11_Witness ==
    /\ call.op = "leave_pool"
    /\ call.out = <<"removed">>
    /\ call.task \in DOMAIN pools
    /\ pools[call.task].agents = Agents \ {call.agent}
    /\ pool_store[call.task].agents = Agents \ {call.agent}

\* The pools agent a is a member of, cached or stored
MemberPools(a) == {p \in PoolIds : KnownPool(p) /\ a \in CurPool(p).agents}

\* The list ids names exactly the pools of the set ps, each once
ExactlyOnce(ids, ps) ==
    /\ {ids[i] : i \in 1..Len(ids)} = ps
    /\ Len(ids) = Cardinality(ps)

\* C31: after any sequence of create_pool, join_pool and leave_pool the pool
\* stored under pool:<id> has the membership of the in-memory pool, and
\* get_pools_for_agent(a) returns exactly the ids of the pools a is a member
\* of, each once, on this manager and on a fresh one over the same store.
C31_PoolsMirrored ==
    /\ \A p \in DOMAIN pools :
          /\ p \in DOMAIN pool_store
          /\ pool_store[p].agents = pools[p].agents
    /\ \A a \in Agents :
          /\ ExactlyOnce(GetPoolsForAgentList(pools, pool_store, a), MemberPools(a))
          /\ ExactlyOnce(GetPoolsForAgentList(EmptyDict, pool_store, a), MemberPools(a))

\* After a restart one pool is cached again and the other is only stored;
\* a1 has just left the cached one, a2 is a member of both
C31_Witness ==
    /\ call.op = "leave_pool" /\ call.agent = "a1" /\ call.out = <<"removed">>
    /\ DOMAIN pools = {"p1"}
    /\ DOMAIN pool_store = {"p1", "p2"}
    /\ GetPoolsForAgentList(pools, pool_store, "a2") = <<"p1", "p2">>
    /\ GetPoolsForAgentList(pools, pool_store, "a1") = <<>>

(***************************************************************************)
(* Properties of the in-process transport                                  *)
(***************************************************************************)
\* The step is a send of message by the started transport of agent a
Sent(a, message) ==
    /\ call'.op = "local.send"
    /\ call'.ret = "none"
    /\ call'.agent = a
    /\ call'.out = <<message>>
    /\ LocalSend(a, message)

\* The step puts message exactly once on the queues of the agents in to and
\* on no other queue
PutOn(to, message) ==
    \A p \in Peers :
        queue'[p] = IF p \in to THEN Append(queue[p], message) ELSE queue[p]

\* C12: a message without recipient whose topics have a subscriber is put on
\* the queue of every registered agent subscribed to one of its topic
\* namespaces, and on no other queue.
C12_TopicRouting ==
    [][call'.op = "local.send" => \A a \in Agents : \A message \in RoutedMessages(a) :
        (/\ Sent(a, message)
         /\ message.recipient = None
         /\ message.topics # {}
         /\ GetSubscribersForTopics(message.topics) # {})
        => PutOn(GetSubscribersForTopics(message.topics) \cap queues, message)
    ]_vars

\* C13: a message without recipient, and without topics or with topics
\* nobody is subscribed to, is put exactly once on the queue of every
\* registered agent except the sender, and not on the sender's queue.
C13_Broadcast ==
    [][call'.op = "local.send" => \A a \in Agents : \A message \in RoutedMessages(a) :
        (/\ Sent(a, message)
         /\ message.recipient = None
         /\ (message.topics = {} \/ GetSubscribersForTopics(message.topics) = {}))
        => /\ PutOn(queues \ {a}, message)
           /\ queue'[a] = queue[a]
    ]_vars

\* A message with topics nobody is subscribed to has been broadcast to the
\* two other agents and not to its sender
C13_Witness ==
    /\ call.op = "local.send"
    /\ call.ret = "none"
    /\ call.out[1].recipient = None
    /\ call.out[1].topics # {}
    /\ GetSubscribersForTopics(call.out[1].topics) = {}
    /\ queues = Peers
    /\ queue[call.agent] = <<>>
    /\ \A p \in Peers \ {call.agent} : queue[p] = call.out

\* C14: a message with a recipient is put on the recipient's queue only,
\* whatever its topics and the subscriptions, also when the recipient is the
\* sender; when the recipient is not registered it is put on no queue.
C14_Direct ==
    [][call'.op = "local.send" => \A a \in Agents : \A message \in RoutedMessages(a) :
        (Sent(a, message) /\ message.recipient # None)
        => PutOn({message.recipient} \cap queues, message)
    ]_vars

\* A sender has sent itself a message with a topic another agent is
\* subscribed to, and only the sender's queue holds it
C14_Witness ==
    /\ call.op = "local.send"
    /\ call.ret = "none"
    /\ call.out[1].recipient = call.agent
    /\ GetSubscribersForTopics(call.out[1].topics) \cap (queues \ {call.agent}) # {}
    /\ queue[call.agent] = call.out
    /\ \A p \in Peers \ {call.agent} : queue[p] = <<>>

\* C15: on every transport, send by a transport that is not started raises
\* not-started and delivers the message to no queue and no peer, and
\* receive by a transport that is not started raises not-started.
C15_NotStarted ==
    [][\A a \in Agents :
        /\ (call'.agent = a /\ call'.op \in {"local.send", "local.receive"}
            /\ ~started[a]) =>
              /\ call'.ret = "raise"
              /\ queue' = queue
        /\ (call'.agent = a /\ call'.op \in {"tcp.send", "tcp.receive"}
            /\ ~tcp_server[a]) =>
              /\ call'.ret = "raise"
              /\ tcp_inbox' = tcp_inbox
        /\ (call'.agent = a /\ call'.op \in {"ws.send", "ws.receive"}
            /\ ~ws[a]) =>
              /\ call'.ret = "raise"
              /\ call'.task = None
    ]_vars

(***************************************************************************)
(* Properties of two runtimes sharing the managers                         *)
(***************************************************************************)
\* Both runtimes run, both agents are members of pool p, and task t of
\* pool p is pending
SharedPending(t, p) ==
    /\ \A a \in Agents : running[a]
    /\ p \in DOMAIN pools
    /\ Agents \subseteq pools[p].agents
    /\ Known(t)
    /\ Cur(t).state = "PENDING"
    /\ Cur(t).pool_id = p

\* Task t is completed with the result the worker reports
Done(t) ==
    /\ Known(t)
    /\ Cur(t).state = "COMPLETED"
    /\ Cur(t).result = "done"

\* C9: with two worker runtimes on one TaskManager and one PoolManager, both
\* agents members of pool P and a pending task T of P, under fair scheduling
\* T is eventually COMPLETED with the reported result; at most one ClaimTask
\* on T ever succeeds, and exactly one has when T is completed; a batch in
\* which an agent loses the claim on T leaves T and its stored snapshot as
\* they were and leaves that agent's runtime running.
C9_SharedTaskCompletes ==
    /\ \A t \in TaskIds, p \in RunPools : SharedPending(t, p) ~> Done(t)
    /\ [](\A t \in TaskIds :
            /\ claim_log[t].won <= 1
            /\ (Known(t) /\ Cur(t).state = "COMPLETED") => claim_log[t].won = 1)
    /\ [][\A a \in Agents, t \in TaskIds :
            (/\ call'.op = "execute"
             /\ call'.agent = a
             /\ Count(t, call'.out) > 0
             /\ Execute(a))
            => /\ Known(t) => (Known(t)' /\ Cur(t)' = Cur(t))
               /\ t \in DOMAIN store => store'[t] = store[t]
               /\ (t \in pending_task_ids') = (t \in pending_task_ids)
               /\ running'[a]
               /\ rt_pc'[a] = "wait"]_vars

\* Both agents were members of p1 and were shown its task t1; one completed
\* it, the other lost the claim, had its report refused, and still runs.
C9_Witness ==
    /\ "p1" \in DOMAIN pools
    /\ Agents \subseteq pools["p1"].agents
    /\ Done("t1")
    /\ Cur("t1").pool_id = "p1"
    /\ claim_log["t1"].won = 1
    /\ call.op = "execute"
    /\ call.ret = "logged"
    /\ Count("t1", call.out) > 0
    /\ call.agent \in claim_log["t1"].lost
    /\ call.agent # Cur("t1").assigned_to
    /\ \A a \in Agents : running[a]


(***************************************************************************)
(* Properties of the listener and of the shutdown                          *)
(***************************************************************************)
\* The registry holds the key of the message's sender and the signature
\* verifies with it
Verifies(message) ==
    /\ RegistryGet(message.sender) # None
    /\ Verify(message, RegistryGet(message.sender))

\* Message m is in the sequence q
InSeq(m, q) == \E i \in 1..Len(q) : q[i] = m

\* C16: in a runtime with an identity registry on the in-process transport,
\* receive_verified returns the received message when its sender is
\* registered and its signature verifies, and None otherwise; such a message
\* waiting in the queue of a running runtime is eventually passed to decide,
\* and once; any other message is never pushed to the inbox, counted or
\* passed to decide.
C16_VerifiedReceive ==
    /\ [][\A a \in WithRegistry :
            (call'.op = "receive_verified" /\ call'.agent = a /\ Listen(a)) =>
               IF Verifies(Head(queue[a]))
               THEN call'.ret = "message" /\ call'.out = <<Head(queue[a])>>
               ELSE call'.ret = "none"]_vars
    /\ \A a \in WithRegistry : \A m \in NodeMessages :
          (running[a] /\ InSeq(m, queue[a]) /\ Verifies(m))
             ~> (InSeq(m, decided[a]) \/ ~running[a])
    /\ [](\A a \in WithRegistry :
            /\ \A i \in 1..Len(rt_inbox[a]) : Verifies(rt_inbox[a][i])
            /\ \A i \in 1..Len(decided[a]) : Verifies(decided[a][i])
            /\ messages_received[a] = Len(rt_inbox[a]) + Len(decided[a]))

\* The events of a call of stop() the order is about
StopEvent(e) == e # "cancel_loop"

\* C20: a call of stop() returns, having done in this order: running set to
\* false, the scheduler notified, the listener cancelled, the listener and
\* the main loop tasks finished, the transport stopped, the descriptor
\* unregistered, on_stop called; then no task of the runtime is left, the
\* transport is stopped and unregistered, and the descriptor is neither in
\* the DiscoveryService nor in its store.
C20_StopSequence ==
    [][\A a \in Agents :
        (/\ call'.op = "stop" /\ call'.agent = a
         /\ stop_pc[a] = "await_loop" /\ stop_pc'[a] = "idle") =>
            /\ call'.ret = "none"
            /\ SelectSeq(stop_log'[a], StopEvent) =
                  <<"running_false", "notify">>
                  \o (IF listen_pc[a] # "none"
                      THEN <<"cancel_listener", "listener_done">> ELSE <<>>)
                  \o (IF rt_pc[a] # "stopped" THEN <<"loop_done">> ELSE <<>>)
                  \o <<"transport_stop", "unregister", "on_stop">>
            /\ ~running'[a]
            /\ listen_pc'[a] = "none"
            /\ rt_pc'[a] = "stopped"
            /\ ~started'[a]
            /\ a \notin queues'
            /\ a \notin descriptors'
            /\ a \notin discovery_store'
    ]_vars


(***************************************************************************)
(* Properties of the execution of decisions                                *)
(***************************************************************************)
\* What a runtime that signs before sending hands to the transport
SignedIfUnsigned(a, message) ==
    IF message.signature = <<>> THEN SignMessage(a, message) ELSE message

\* C17 as stated: every message a runtime hands to the transport for a
\* decision to send carries a signature: the decision's message signed
\* with the agent's identity when it had none, the decision's message
\* itself when it was signed.
C17_SignedSend ==
    \A a \in Agents : \A k \in 1..Len(sent[a]) :
        /\ sent[a][k].message.signature # <<>>
        /\ sent[a][k].message = SignedIfUnsigned(a, sent[a][k].decision_message)

\* C17, amended: the StandardExecutor hands the message of a SendMessage
\* decision to the transport unchanged, with or without a signature; only
\* the legacy fallback, for a decision that is itself a Message, signs a
\* message without a signature with the agent's identity (the sender
\* becomes the agent's fingerprint) and sends a signed one unchanged.
C17_SignedOnFallbackOnly ==
    \A a \in Agents : \A k \in 1..Len(sent[a]) :
        /\ sent[a][k].via = "executor" =>
              /\ a \in WithManagers
              /\ sent[a][k].message = sent[a][k].decision_message
        /\ sent[a][k].via = "fallback" =>
              /\ a \notin WithManagers
              /\ sent[a][k].message.signature # <<>>
              /\ sent[a][k].message = SignedIfUnsigned(a, sent[a][k].decision_message)

\* An executor has handed an unsigned message to the transport as it was,
\* and a fallback has signed one
C17_Witness ==
    /\ \E a \in WithManagers : \E k \in 1..Len(sent[a]) :
          /\ sent[a][k].via = "executor"
          /\ sent[a][k].message.signature = <<>>
    /\ \E a \in Agents \ WithManagers : \E k \in 1..Len(sent[a]) :
          /\ sent[a][k].decision_message.signature = <<>>
          /\ sent[a][k].message.signature # <<>>

\* C18: in StandardExecutor.execute an exception of one decision (manager
\* call, transport send, tool, custom handler) is caught: execute does not
\* raise, the main loop goes on, and every decision of the batch is run, a
\* SendMessage after a failed decision is handed to the started transport.
C18_BatchSurvivesErrors ==
    [][\A a \in WithManagers :
        (call'.op = "run_tick" /\ call'.agent = a /\ tick_no'[a] = tick_no[a] + 1) =>
            /\ call'.ret # "raise"
            /\ rt_pc'[a] = "wait"
            /\ Len(call'.out) = Len(rt_decisions'[a])
            /\ \A i \in 1..Len(call'.out) : call'.out[i] \in {"ok", "logged"}
            /\ \A i \in 1..Len(rt_decisions'[a]) :
                  (rt_decisions'[a][i].type = "SendMessage" /\ started[a]) =>
                      \E k \in 1..Len(sent'[a]) :
                          /\ sent'[a][k].tick = tick_no'[a]
                          /\ sent'[a][k].idx = i
                          /\ sent'[a][k].decision_message = rt_decisions'[a][i].message
    ]_vars

\* The first decision of a batch raised and was logged, and the second, a
\* SendMessage, was handed to the transport
C18_Witness ==
    \E a \in WithManagers :
        /\ call.op = "run_tick" /\ call.agent = a
        /\ call.out = <<"logged", "ok">>
        /\ rt_decisions[a][2].type = "SendMessage"
        /\ \E k \in 1..Len(sent[a]) :
              sent[a][k].tick = tick_no[a] /\ sent[a][k].idx = 2

\* Effect e comes before effect f in the order of the decisions: an earlier
\* tick, or the same tick and an earlier place in the batch
Before(e, f) == e.tick < f.tick \/ (e.tick = f.tick /\ e.idx < f.idx)

\* The sequence q of effects is in the order of the decisions
InOrder(q) == \A j, k \in 1..Len(q) : j < k => Before(q[j], q[k])

\* An effect that took place while its decision was being executed
OnTime(e) == ~e.late

\* C19 as stated: the effects of the decisions of an agent take place in
\* the order of the decisions: in the returned order within a tick, and
\* all those of tick n before any of tick n+1.
C19_EffectsInOrder == \A a \in Agents : InOrder(effects[a])

\* C19, amended: the decisions of one decide call are executed in the
\* returned order and those of tick n before those of tick n+1, and their
\* effects take place in that order, except the effect of a tool run that
\* exceeded tool_timeout_sec: it is left on its worker thread and may have
\* its effect after those of later decisions and later ticks.
C19_OrderButOverruns ==
    \A a \in Agents :
        /\ InOrder(SelectSeq(effects[a], OnTime))
        /\ \A k \in 1..Len(effects[a]) :
              effects[a][k].late => a \in WithToolTimeout
        /\ \A run \in tool_threads[a] : run.tick <= tick_no[a]

\* Effects of two ticks took place in order, and the effect of a tool run
\* of the first tick that overran its timeout came after them
C19_Witness ==
    \E a \in WithToolTimeout :
        /\ Len(effects[a]) >= 3
        /\ effects[a][Len(effects[a])].late
        /\ effects[a][Len(effects[a])].tick = 1
        /\ \E j, k \in 1..Len(effects[a]) :
              /\ j < k
              /\ ~effects[a][j].late /\ effects[a][j].tick = 1
              /\ ~effects[a][k].late /\ effects[a][k].tick = 2


(***************************************************************************)
(* Properties of cancel_task, of the leases and of the task listing        *)
(***************************************************************************)
\* C28: cancel_task(id) on a PENDING or ASSIGNED task returns true, makes
\* the task CANCELLED with assigned_to and claimed_at cleared, takes it out
\* of the pending index and persists it; on an unknown id or a COMPLETED,
\* FAILED or CANCELLED task it returns false and changes no task, nor the
\* pending index, nor the store.
C28_CancelTask ==
    [][\A t \in TaskIds :
        (call'.op = "cancel_task" /\ call'.task = t) =>
        /\ (Known(t) /\ Cur(t).state \in {"PENDING", "ASSIGNED"}) =>
              /\ call'.ret = "true"
              /\ tasks'[t] = [Cur(t) EXCEPT !.state = "CANCELLED",
                                            !.assigned_to = None,
                                            !.claimed_at = NoNum]
              /\ store'[t] = tasks'[t]
              /\ t \notin pending_task_ids'
              /\ t \notin ListPendingTasks'
        /\ (~Known(t) \/ Cur(t).state \in Terminal) =>
              /\ call'.ret = "false"
              /\ store' = store
              /\ pending_task_ids' = pending_task_ids
              /\ \A u \in TaskIds :
                    /\ Known(u)' = Known(u)
                    /\ Known(u) => Cur(u)' = Cur(u)
    ]_vars

\* A task was cancelled and persisted, while another one is COMPLETED
C28_Witness ==
    /\ call.op = "cancel_task"
    /\ call.ret = "true"
    /\ tasks[call.task].state = "CANCELLED"
    /\ tasks[call.task].assigned_to = None
    /\ store[call.task] = tasks[call.task]
    /\ call.task \notin pending_task_ids
    /\ \E u \in DOMAIN tasks : tasks[u].state = "COMPLETED"

\* claim_ttl_sec is a number of seconds: present, and float() takes it
Numeric(ttl) == ttl # NoNum /\ Float(ttl) # NoNum

\* C29: release_expired_claims(now) leaves unchanged, and does not return,
\* every task that is not ASSIGNED, every ASSIGNED task without a numeric
\* claim_ttl_sec and every ASSIGNED task with now - claimed_at <
\* claim_ttl_sec; so no number of calls releases a claim without a TTL.
C29_ReleaseFrame ==
    [][\A n \in 0..MaxTime :
        (call'.op = "release_expired_claims" /\ ReleaseExpiredClaims(n)) =>
        \A t \in TaskIds :
            ( /\ Known(t)
              /\ \/ Cur(t).state # "ASSIGNED"
                 \/ ~Numeric(Cur(t).ttl)
                 \/ /\ Cur(t).claimed_at # NoNum
                    /\ n - Cur(t).claimed_at < Float(Cur(t).ttl) ) =>
            /\ Count(t, call'.out) = 0
            /\ Known(t)'
            /\ Cur(t)' = Cur(t)
            /\ t \in DOMAIN store => store'[t] = store[t]
            /\ (t \in pending_task_ids') <=> (t \in pending_task_ids)
    ]_vars

\* A call has released an expired claim and left the claim of a task whose
\* claim_ttl_sec is no number, older than a second, as it was
C29_Witness ==
    /\ call.op = "release_expired_claims"
    /\ Len(call.out) = 1
    /\ \E u \in DOMAIN tasks :
          /\ tasks[u].state = "ASSIGNED"
          /\ tasks[u].ttl = BadNum
          /\ now - tasks[u].claimed_at >= 1


\* Agent a is a member of pool p
IsMember(a, p) ==
    \/ p \in DOMAIN pools /\ a \in pools[p].agents
    \/ p \notin DOMAIN pools /\ p \in DOMAIN pool_store /\ a \in pool_store[p].agents

\* C30: list_pending_tasks_for_agent(agent, pool_ids, capabilities) returns
\* exactly the tasks t of list_pending_tasks with (pool_ids is None or
\* t.pool_id is None or t.pool_id in pool_ids) and (capabilities is None or
\* t.required_capabilities is a subset of capabilities); and the main loop
\* of a runtime with both managers gives decide a pending task of pool P
\* only when its agent is a member of P.
C30_VisibleTasks ==
    /\ [][\A pool_ids \in ListPoolArgs, capabilities \in ListCapArgs :
            (/\ call'.op = "list_pending_tasks_for_agent"
             /\ call'.out[1] = pool_ids /\ call'.out[2] = capabilities) =>
                call'.out[3] =
                    {t \in ListPendingTasks :
                        /\ \/ pool_ids = NoFilter
                           \/ tasks[t].pool_id = None
                           \/ tasks[t].pool_id \in pool_ids
                        /\ \/ capabilities = NoFilter
                           \/ tasks[t].required_capabilities \subseteq capabilities}
       ]_vars
    /\ [][\A a \in Agents :
            (call'.op = "poll_tasks" /\ call'.agent = a) =>
                \A t \in call'.out[1] :
                    /\ t \in ListPendingTasks
                    /\ tasks[t].pool_id # None => IsMember(a, tasks[t].pool_id)
       ]_vars

\* A listing with both filters has returned one of two pending tasks, and
\* the other one is of a pool that was not asked for
C30_Witness ==
    /\ call.op = "list_pending_tasks_for_agent"
    /\ call.out[1] = {"p1"}
    /\ call.out[2] = {"c1"}
    /\ Cardinality(call.out[3]) = 1
    /\ Cardinality(ListPendingTasks) = 2
    /\ \E t \in call.out[3] :
          tasks[t].pool_id = "p1" /\ tasks[t].required_capabilities = {"c1"}



\* C36: after release_expired_claims has returned a task T, claimed by a1,
\* to PENDING, report(a1, T, r) is rejected as not authorized and leaves T
\* unchanged, also after another agent has claimed T; only the report of
\* the current assignee completes T, so the late report of an expired
\* claimer never overwrites the result of the new claimer.
C36_LateReport ==
    [][\A a \in Agents, t \in TaskIds :
        (call'.op = "report" /\ call'.agent = a /\ call'.task = t /\ Known(t)) =>
            /\ a \in expired[t] =>
                  /\ call'.ret = "raise"
                  /\ Cur(t)' = Cur(t)
                  /\ store' = store
                  /\ pending_task_ids' = pending_task_ids
            /\ Cur(t)' # Cur(t) =>
                  /\ Cur(t).assigned_to = a
                  /\ call'.ret = "none"
      ]_vars

\* a1's lease on t1 ran out, a2 claimed t1 and reported it, and now the
\* late report of a1 has been rejected
C36_Witness ==
    /\ call.op = "report" /\ call.agent = "a1" /\ call.task = "t1" /\ call.ret = "raise"
    /\ "a1" \in expired["t1"]
    /\ "t1" \in DOMAIN tasks
    /\ tasks["t1"].state = "COMPLETED"
    /\ tasks["t1"].assigned_to = "a2"
    /\ tasks["t1"].result = "done"

\* The fields of a task that tell who holds it agree with its state
ClaimFieldsAgree(task) ==
    /\ task.state = "ASSIGNED" =>
          task.assigned_to \in Agents /\ task.claimed_at # NoNum
    /\ task.state \in {"PENDING", "CANCELLED"} =>
          task.assigned_to = None /\ task.claimed_at = NoNum

\* C37: for every task that was submitted in its initial PENDING state and
\* changed only through TaskManager operations, in every reachable state an
\* ASSIGNED task has assigned_to and claimed_at both set, and a PENDING or
\* CANCELLED task has both null.
C37_ClaimFields ==
    /\ \A t \in DOMAIN tasks : ClaimFieldsAgree(tasks[t])
    /\ \A t \in DOMAIN store : ClaimFieldsAgree(store[t])

\* A task that was claimed has just been cancelled while the other task is
\* held by an agent
C37_Witness ==
    /\ call.op = "cancel_task" /\ call.task = "t1"
    /\ DOMAIN tasks = {"t1", "t2"}
    /\ tasks["t1"].state = "CANCELLED"
    /\ tasks["t2"].state = "ASSIGNED" /\ tasks["t2"].assigned_to = "a2"
    /\ tasks["t2"].claimed_at = 1
    /\ store = tasks

(***************************************************************************)
(* Properties of the scheduler, of the inbox and of the main loop          *)
(***************************************************************************)
\* C21: the scheduler is a latch. A wait_for_work called with the latch set
\* returns true without waiting; every true return leaves the latch cleared
\* and happens only if notify was called since the previous true return
\* (so any number of notifies gives one true); a call that returns with no
\* such notify returns false, after having waited for the timeout.
C21_Latch ==
    [][call'.op = "wait_for_work" /\ call'.ret # "waiting" =>
        LET a == call'.agent IN
        /\ call'.ret \in {"true", "false"}
        /\ (sched_pc[a] = "idle" /\ wake[a]) => call' = Ret("wait_for_work", a, None, "true", <<"at once">>)
        /\ call'.ret = "true" => notified[a] /\ ~wake'[a] /\ ~notified'[a]
        /\ ~notified[a] => call'.ret = "false" /\ call'.out = <<"waited">>
        /\ call'.ret = "false" => wake'[a] = wake[a]
    ]_vars

\* a wait has returned false after a timeout, with a true return before it
C21_Witness ==
    /\ call = Ret("wait_for_work", "a1", None, "false", <<"waited">>)
    /\ ~wake["a1"]
    /\ sched_pc["a2"] = "waiting" /\ wake["a2"] /\ notified["a2"]


\* The first n elements of q are the sequence s, and rest is what follows
TakenFrom(s, q, rest) ==
    /\ Len(s) <= Len(q)
    /\ \A i \in 1..Len(s) : s[i] = q[i]
    /\ Len(rest) = Len(q) - Len(s)
    /\ \A i \in 1..Len(rest) : rest[i] = q[i + Len(s)]

\* C22: poll(batch_size) returns, in one step, the min(batch_size, queued)
\* oldest messages in their order of arrival and leaves the others queued.
\* The messages decide is given in a pass are the at most 10 oldest of the
\* inbox, and over the passes decide is given messages the transport
\* received, in the order of their arrival and none of them twice.
C22_PollAndDecide ==
    /\ [](\A i \in 1..Len(decided["a1"]) :
             /\ decided["a1"][i] \in 1..messages_received["a1"]
             /\ \A j \in 1..Len(decided["a1"]) :
                   i < j => decided["a1"][i] < decided["a1"][j])
    /\ [][/\ call'.op = "poll" =>
              LET a == call'.agent
                  batch_size == call'.out[1]
                  messages == call'.out[2] IN
              /\ Len(messages) = Min(batch_size, Len(rt_inbox[a]))
              /\ TakenFrom(messages, rt_inbox[a], rt_inbox'[a])
          /\ (call'.op = "pass" /\ call'.ret \in {"decided", "raise"}) =>
              LET a == call'.agent
                  messages == hooks'[a][2].messages IN
              /\ hooks'[a][2].op = "decide"
              /\ Len(messages) = Min(DefaultBatchSize, Len(rt_inbox[a]))
              /\ TakenFrom(messages, rt_inbox[a], rt_inbox'[a])
              /\ decided'[a] = decided[a] \o messages
      ]_vars

\* decide was given the ten oldest of eleven queued messages
C22_Witness ==
    /\ call.op = "pass"
    /\ Len(hooks["a1"]) = 2
    /\ Len(hooks["a1"][2].messages) = DefaultBatchSize
    /\ rt_inbox["a1"] = <<DefaultBatchSize + 1>>
    /\ decided["a1"] = [i \in 1..DefaultBatchSize |-> i]

\* C23: an inbox built with maxsize n > 0 never holds more than n messages.
\* With drop_when_full a push never blocks, and on a full inbox it discards
\* the new message; without it a push on a full inbox blocks, the message
\* is put on the queue only once the queue has a free slot, and the push
\* then returns.  A push on an inbox that is not full queues the message.
C23_BoundedInbox ==
    /\ [](\A a \in Agents :
             inbox_cfg[a].maxsize > 0 => Len(rt_inbox[a]) <= inbox_cfg[a].maxsize)
    /\ [][/\ (call'.op = "push" /\ call'.ret # "resumed") =>
              LET a == call'.agent
                  cfg == inbox_cfg[a]
                  full == cfg.maxsize > 0 /\ Len(rt_inbox[a]) = cfg.maxsize IN
              /\ cfg.drop_when_full => call'.ret # "blocked" /\ pushing'[a] = <<>>
              /\ (full /\ cfg.drop_when_full) =>
                    /\ call'.ret = "dropped"
                    /\ rt_inbox'[a] = rt_inbox[a]
              /\ (full /\ ~cfg.drop_when_full) =>
                    /\ call'.ret = "blocked"
                    /\ pushing'[a] = call'.out
                    /\ rt_inbox'[a] = rt_inbox[a]
              /\ ~full =>
                    /\ call'.ret = "queued"
                    /\ rt_inbox'[a] = rt_inbox[a] \o call'.out
          /\ \A a \in Agents :
                pushing[a] # <<>> =>
                    \/ /\ pushing'[a] = pushing[a]
                       /\ \A i \in 1..Len(rt_inbox'[a]) : rt_inbox'[a][i] # pushing[a][1]
                    \/ /\ Len(rt_inbox[a]) < inbox_cfg[a].maxsize
                       /\ pushing'[a] = <<>>
                       /\ rt_inbox'[a] = rt_inbox[a] \o pushing[a]
                       /\ call' = Ret("push", a, None, "resumed", pushing[a])
      ]_vars

\* a push that was blocked on a full inbox has put its message on the queue
\* after a poll
C23_Witness ==
    /\ call = Ret("push", "a1", None, "resumed", <<3>>)
    /\ inbox_cfg["a1"] = BoundedInbox(FALSE)
    /\ rt_inbox["a1"] = <<2, 3>>
    /\ decided["a1"] = <<>>


BatchStart(a) ==
    [m |-> TM, q |-> queue, sent |-> sent[a], effects |-> effects[a],
     threads |-> tool_threads[a], outcomes |-> <<>>, raised |-> FALSE, skip |-> FALSE,
     executed |-> decisions_executed[a]]

\* The state after the first k decisions of the batch
AfterDecisions(a, decisions, k) ==
    RunBatch(SubSeq(decisions, 1, k), BatchStart(a), a, tick_no[a] + 1, 1)

\* The type of d is not among the allowed actions of the policy
NotAllowed(policy, d) ==
    policy.allowed_actions # NoFilter /\ d.type \notin policy.allowed_actions

\* The task of a SubmitTask, or the one a ClaimTask names in the manager
\* state m, asks for more cpu or more memory than the limits of the policy
ExceedsLimits(policy, m, d) ==
    /\ policy.limits # <<>>
    /\ \/ /\ d.type = "SubmitTask"
          /\ \/ d.task.cpu > policy.limits[1].max_cpu_tokens
             \/ d.task.memory_mb > policy.limits[1].max_memory_mb
       \/ /\ d.type = "ClaimTask"
          /\ d.task_id \in DOMAIN m.tasks \cup DOMAIN m.store
          /\ LET task == IF d.task_id \in DOMAIN m.tasks THEN m.tasks[d.task_id]
                         ELSE m.store[d.task_id] IN
             \/ task.cpu > policy.limits[1].max_cpu_tokens
             \/ task.memory_mb > policy.limits[1].max_memory_mb

\* The tasks of the manager state m, cached or stored
TasksOf(m) ==
    [t \in DOMAIN m.tasks \cup DOMAIN m.store |->
        IF t \in DOMAIN m.tasks THEN m.tasks[t] ELSE m.store[t]]

C39_DecideRaiseSurvived ==
    [][\A a \in Agents :
        (call'.op = "pass" /\ call'.agent = a /\ call'.ret = "raise") =>
            rt_pc'[a] = "wait"
      ]_vars

WholeFrames(wire) ==
    /\ Len(wire) % 2 = 0
    /\ \A i \in 1..Len(wire) :
          i % 2 = 1 => /\ wire[i].kind = "len"
                       /\ wire[i + 1].kind = "data"
                       /\ wire[i + 1].frame = wire[i].frame

\* C32: for any interleaving of concurrent send calls to the same (host,
\* port), frames never interleave on a connection: each length prefix
\* written is immediately followed on that connection by exactly its own
\* payload.
C32_FramesWhole ==
    \A c \in 1..Len(tcp_conns) : WholeFrames(tcp_conns[c].wire)

\* A sender that had to wait for the lock of a pooled connection has
\* written its frame behind the frame of the other sender
C32_Witness ==
    /\ call.op = "tcp.send.locked"
    /\ \E c \in 1..Len(tcp_conns) :
          /\ Len(tcp_conns[c].wire) = 4
          /\ tcp_conns[c].wire[1].frame[1] # tcp_conns[c].wire[3].frame[1]
          /\ tcp_conns[c].wire[3].frame[1] = call.agent

\* C33: for any interleaving of concurrent sends (several first sends to a
\* peer that is not pooled included) and write errors, a write error closes
\* and evicts the failing entry only, and after stop() returns the pool is
\* empty and every outbound connection the transport ever opened has been
\* closed.
C33_EvictAndClose ==
    /\ [][\A s \in Senders :
            (/\ call'.op = "tcp.send" /\ call'.ret = "error" /\ call'.agent = s
             /\ tcp_send[s].pc = "drain") =>
                LET c == tcp_send[s].conn IN
                /\ tcp_conns'[c].closed
                /\ \A k \in TcpKeys : tcp_pool'[k] # c
                /\ \A k \in TcpKeys : tcp_pool[k] # c => tcp_pool'[k] = tcp_pool[k]
                /\ \A d \in 1..Len(tcp_conns) :
                      d # c => tcp_conns'[d].closed = tcp_conns[d].closed
         ]_vars
    /\ [](call.op = "tcp.stop" =>
            /\ \A k \in TcpKeys : tcp_pool[k] = NoConn
            /\ \A c \in 1..Len(tcp_conns) : tcp_conns[c].closed)


(***************************************************************************)
(* Properties of Store.put_if_absent                                       *)
(***************************************************************************)
\* C34: put_if_absent(key, value) of MemoryStore and FileStore is atomic:
\* for any interleaving of concurrent calls on the same absent key exactly
\* one returns true and the stored value is that caller's; on a present key
\* it returns false and leaves the stored value unchanged.
C34_PutIfAbsentAtomic ==
    /\ [](\A key \in StoreKeys :
            /\ Len(pia_true[key]) <= 1
            /\ Len(pia_true[key]) = 1 => kv_data[key] = pia_true[key][1])
    /\ [][\A th \in StoreCallers, key \in StoreKeys :
            (/\ call'.op = "put_if_absent" /\ call'.agent = th /\ call'.task = key
             /\ pia_pc[th].pc = "idle" /\ kv_data[key] # None) =>
                call'.ret = "false" /\ kv_data' = kv_data
         ]_vars


(***************************************************************************)
(* Properties of Message.sign and Message.verify                           *)
(***************************************************************************)
\* C35: for every message M and identity id with a private key, sign(M, id)
\* has sender = id.fingerprint and verify(sign(M, id), id.public_key) is
\* true; with the public key of another identity verify is false; verify of
\* a message with an empty signature, or of a signed message in which a
\* signed field was changed afterwards, is false; verify never raises.
C35_SignVerify ==
    /\ (call.op = "sign" /\ call.ret = "message") => call.out[2].sender = call.agent
    /\ call.op = "verify" =>
          LET signed == Sign(call.out[1], call.out[2])
              received == call.out[3]
              key == call.agent IN
          /\ call.ret \in {"true", "false"}
          /\ (received = signed /\ key = call.out[2]) => call.ret = "true"
          /\ (received = signed /\ key # call.out[2]) => call.ret = "false"
          /\ received.signature = <<>> => call.ret = "false"
          /\ (/\ received.signature = signed.signature
              /\ SerializeForSigning(received) # SerializeForSigning(signed)) =>
                call.ret = "false"

(***************************************************************************)
(* Properties of the NegotiationProtocol                                   *)
(***************************************************************************)
NegCalls == {"propose", "accept", "reject"}

\* C40: once a session is accepted, rejected or closed, no propose, accept
\* or reject by any agent changes it, and propose returns false; and a
\* propose, accept or reject by an agent that is not a participant of the
\* session returns false and changes nothing.
C40_SettledAndOutsiders ==
    [][(call'.op \in NegCalls /\ call'.task \in DOMAIN sessions) =>
          /\ sessions[call'.task].state \in Settled =>
                /\ sessions' = sessions
                /\ call'.op = "propose" => call'.ret = "false"
          /\ ~IsParticipant(call'.agent, sessions[call'.task]) =>
                /\ sessions' = sessions
                /\ call'.ret = "false"]_vars

====
